---- MODULE Spec2Model ----
(***************************************************************************)
(* Model of the facebook-scraper MCP server: the backend detector, the     *)
(* strategy orchestrator with its fallback loop, the backend adapters      *)
(* with their shared result caches, and the tool handlers in front of      *)
(* them.                                                                   *)
(***************************************************************************)
EXTENDS Integers, Sequences, FiniteSets, TLC

\* ------------------------------------------------------------------ bounds
\* Tool requests issued in one run of the server.
MaxRequests == 2
\* Tool requests that may be in flight at the same time.
MaxInFlight == 2
\* Tool requests issued in one run of the auto-mode specification.
MaxAutoRequests == 3
\* acquire() calls made on the rate limiter in one run.
MaxAcquires == 4
\* Largest requestsPerSecond and requestsPerMinute options a limiter is
\* constructed with.
MaxPerSecond == 2
MaxPerMinute == 3
\* Largest maxRetries option withRetry is called with.
MaxMaxRetries == 2
\* Math.random() gives one of the values 0/RandomSteps .. (RandomSteps-1)/RandomSteps.
RandomSteps == 4
\* Calls made on a Cache object in one run, the keys they use, the largest
\* maxEntries option, and the time that passes during the run at most.
MaxCacheCalls == 4
MaxKeys == 3
MaxMaxEntries == 2
MaxCacheTime == 5

\* A cache that may hold more than maxEntries between two cleanups: its
\* maxEntries, its keys and the calls made on it.
MaxEagerEntries == 5
MaxEagerKeys == 7
MaxEagerCalls == 8
\* Calls made on the detector in one run of the detector specification.
MaxDetectorCalls == 4

\* The generateKey calls of one run, and the largest number that is the
\* value of an option.
\* Browsers one StandaloneAdapter launches in one run.
MaxLaunches == 3

MaxKeyCalls == 2

\* scrapeUrl / search calls of the StandaloneAdapter in one run.
MaxContextCalls == 2

\* Calls of the fetching adapters in one run.
MaxScrapes == 3

\* Elements of the longest markups parsed.
MaxElements == 51

\* Calls of the playwright-mcp adapter in one run.
MaxDelegations == 2
MaxNumber == 2

Req == 1..MaxInFlight

\* ------------------------------------------------------------------ types
AdapterName == {"brightdata", "firecrawl", "playwright-mcp", "standalone"}

Strategy == AdapterName \cup {"auto"}

ScrapeTools == {"fb_scrape_page", "fb_scrape_post", "fb_scrape_comments"}

Tools == ScrapeTools \cup {"fb_search"}

\* Config as read from the environment: only the three detection switches
\* are read by the detector, the orchestrator and the adapters' guards.
Config == [brightdata_token : BOOLEAN,
           firecrawl_api_key : BOOLEAN,
           playwright_mcp_enabled : BOOLEAN]

NoResult == [kind |-> "none"]
Threw == [kind |-> "threw"]

Main == 0

Callers == {Main} \cup Req

VARIABLES
    env,            \* process.env, as far as loadConfig() reads it
    detected,       \* MCPDetector.detected
    detInitialized, \* MCPDetector.initialized
    configReads,    \* number of loadConfig() calls made by detect()
    ret,            \* the last detector call: operation, value returned, and
                    \* the configuration the environment held at the call
    detCalls,       \* number of detector calls made (detector specification)
    adapters,       \* StrategyOrchestrator.adapters: name -> instance (0 = no entry)
    priorityOrder,  \* StrategyOrchestrator.priorityOrder
    initialized,    \* StrategyOrchestrator.initialized
    instances,      \* number of adapter objects constructed so far
    consults,       \* number of detect() calls made by initialize()
    scrapeCache,    \* utils/cache scrapeCache: key -> envelope
    searchCache,    \* utils/cache searchCache: key -> envelope
    pc,             \* position of main() and of every request slot
    req,            \* one record per request slot
    issued,         \* requests issued so far
    now,            \* Date.now(), in milliseconds
    limiter,        \* the RateLimiter object: its options, requests and
                    \* lastRequestTime
    acq,            \* every caller's pending acquire(): position, wake-up time
    trace,          \* the requests recorded so far, in order: caller, time of
                    \* the acquire() call, wait computed, time recorded
    cacheObject,    \* a Cache object: its options and its Map, the entries
                    \* in insertion order
    cacheCall,      \* the last call made on cacheObject: operation, arguments,
                    \* time, value returned, the entry it found under its key,
                    \* and the cleanup() it ran (the entries that found, the
                    \* number that returned)
    pending,        \* the getOrSet call on cacheObject that awaits its
                    \* factory, if there is one
    keyed,          \* the Cache.generateKey calls made so far: arguments and
                    \* the key returned
    standalone,     \* a StandaloneAdapter: its browser field, the browsers
                    \* launched so far, and where every call on it stands
    parsed,         \* the last FacebookParser.parsePosts call: markup and posts
    delegated,      \* the last PlaywrightMCPAdapter call and what it returned
    scrape,         \* a call of a fetching adapter: its steps so far and its result
    contexts,       \* the browser contexts of the StandaloneAdapter and its calls' attempts
    built,          \* the last call of StandaloneAdapter.buildFacebookUrl
    retry           \* one withRetry / fetchWithRetry call: its options, its
                    \* locals (attempt, lastError), where it stands, and what
                    \* it has done so far (invocations, onRetry calls, waits)

detVars == <<detected, detInitialized, configReads>>
orchVars == <<adapters, priorityOrder, initialized, instances, consults>>
cacheVars == <<scrapeCache, searchCache>>
serverVars == <<env, detVars, ret, detCalls, orchVars, cacheVars, pc, req, issued>>
limVars == <<now, limiter, acq, trace>>
\* The state of the utilities, which the steps of the server above them
\* leave alone.
objVars == <<cacheObject, cacheCall, pending>>
libVars == <<keyed, standalone, parsed, delegated, scrape, contexts, built>>
utilVars == <<limVars, retry, objVars, libVars>>
\* What the steps of one utility leave alone.
notLimiter == <<serverVars, retry, objVars, libVars>>
notRetry == <<serverVars, limVars, objVars, libVars>>
notCache == <<serverVars, limiter, acq, trace, retry, libVars>>
notKeyed == <<serverVars, limVars, retry, objVars, standalone, parsed, delegated, scrape, contexts, built>>
notStandalone == <<serverVars, limVars, retry, objVars, keyed, parsed, delegated, scrape, contexts, built>>
notDelegated == <<serverVars, limVars, retry, objVars, keyed, standalone, parsed, scrape, contexts, built>>
notParsed == <<serverVars, limVars, retry, objVars, keyed, standalone, delegated, scrape, contexts, built>>
vars == <<serverVars, utilVars>>

\* ---------------------------------------------------------------- config
loadConfig == env

\* -------------------------------------------------------------- detector
Pushed(flag, name, priority) ==
    IF flag THEN <<[name |-> name, available |-> TRUE, priority |-> priority]>>
    ELSE <<>>

\* detect() with the Firecrawl entry pushed whatever the configuration.
McpsFirecrawlUngated(config) ==
    Pushed(config.brightdata_token, "brightdata", 1)
    \o Pushed(TRUE, "firecrawl", 2)
    \o Pushed(config.playwright_mcp_enabled, "playwright-mcp", 3)
    \o Pushed(TRUE, "standalone", 4)

\* detect() with the Playwright MCP entry pushed whatever the configuration.
McpsPlaywrightUngated(config) ==
    Pushed(config.brightdata_token, "brightdata", 1)
    \o Pushed(config.firecrawl_api_key, "firecrawl", 2)
    \o Pushed(TRUE, "playwright-mcp", 3)
    \o Pushed(TRUE, "standalone", 4)

\* The list detect() builds before sorting.
Mcps(config) ==
    Pushed(config.brightdata_token, "brightdata", 1)
    \o Pushed(config.firecrawl_api_key, "firecrawl", 2)
    \o Pushed(config.playwright_mcp_enabled, "playwright-mcp", 3)
    \o Pushed(TRUE, "standalone", 4)

RECURSIVE Insert(_, _)
Insert(m, s) ==
    IF s = <<>> THEN <<m>>
    ELSE IF m.priority < Head(s).priority THEN <<m>> \o s
    ELSE <<Head(s)>> \o Insert(m, Tail(s))

\* mcps.sort((a, b) => a.priority - b.priority): stable ascending sort.
RECURSIVE SortByPriority(_)
SortByPriority(s) ==
    IF s = <<>> THEN <<>>
    ELSE Insert(s[Len(s)], SortByPriority(SubSeq(s, 1, Len(s) - 1)))

\* The list detect() returns in the current state.
DetectResult ==
    IF detInitialized THEN detected ELSE SortByPriority(Mcps(loadConfig))

\* detect() without its early return: the list is rebuilt on every call.
detectUnmemoized ==
    /\ detected' = SortByPriority(Mcps(loadConfig))
    /\ detInitialized' = TRUE
    /\ configReads' = configReads + 1

\* State change of one detect() call.
detect ==
    /\ detected' = DetectResult
    /\ detInitialized' = TRUE
    /\ configReads' = IF detInitialized THEN configReads ELSE configReads + 1

isAvailable(name) ==
    \E i \in 1..Len(detected) : detected[i].name = name /\ detected[i].available

getFirst ==
    IF Len(detected) > 0 THEN detected[1].name ELSE "standalone"

\* ------------------------------------------------------------ envelopes
Envelope(success, data, adapter_used, error) ==
    [kind |-> "envelope", success |-> success, data |-> data,
     adapter_used |-> adapter_used, error |-> error]

IsEnvelope(x) == x.kind = "envelope"

Succeeded(x) == IsEnvelope(x) /\ x.success

\* BaseAdapter.createErrorResult / createSearchErrorResult
createErrorResult(name, error) == Envelope(FALSE, "null", name, error)

\* ----------------------------------------------------------------- cache
\* Cache.generateKey for the option objects of the tools, whose fields are
\* strings, numbers and booleans: the url followed by the options
\* serialised with their keys sorted; a record is equal to any reordering
\* of itself, as that string is. Cache_generateKey builds the string.
generateKey(url, options) == [url |-> url, options |-> options]

\* Cache.get; the entries' TTL (ten and five minutes) outlasts the
\* requests of a run, so no entry is found expired.
CacheGet(cache, key) == IF key \in DOMAIN cache THEN cache[key] ELSE NoResult

\* Cache.set
CacheSet(cache, key, value) ==
    [k \in DOMAIN cache \cup {key} |-> IF k = key THEN value ELSE cache[k]]

\* ------------------------------------------------------------------ tools
\* The options object each tool handler hands to the orchestrator, after
\* the schema's defaults; scrapeComments adds include_comments.
ToolOptions(tool, strategy) ==
    CASE tool = "fb_scrape_page" ->
           [limit |-> "20", include_comments |-> "absent", type |-> "absent",
            strategy |-> strategy]
      [] tool = "fb_scrape_post" ->
           [limit |-> "absent", include_comments |-> "false", type |-> "absent",
            strategy |-> strategy]
      [] tool = "fb_scrape_comments" ->
           [limit |-> "50", include_comments |-> "true", type |-> "absent",
            strategy |-> strategy]
      [] tool = "fb_search" ->
           [limit |-> "10", include_comments |-> "absent", type |-> "posts",
            strategy |-> strategy]

IsSearch(tool) == tool = "fb_search"

\* The one page url and the one query of the model.
TargetOf(tool) == IF IsSearch(tool) THEN "search:q" ELSE "u"

KeyOf(r) == generateKey(TargetOf(req[r].tool), ToolOptions(req[r].tool, req[r].strategy))

\* --------------------------------------------------------------- adapters
\* The adapters that read the shared cache before anything else.
UsesCache(name, tool) ==
    IF IsSearch(tool) THEN name \in {"firecrawl", "standalone"}
    ELSE name \in {"brightdata", "firecrawl", "standalone"}

CacheOf(tool) == IF IsSearch(tool) THEN searchCache ELSE scrapeCache

\* The guard at the head of each adapter's try block.
ConfigError(name, config) ==
    CASE name = "brightdata" -> ~config.brightdata_token
      [] name = "firecrawl" -> ~config.firecrawl_api_key
      [] name = "playwright-mcp" -> ~config.playwright_mcp_enabled
      [] OTHER -> FALSE

\* What the part of scrapeUrl / search that runs before its first
\* suspension yields: an envelope, or NoResult when the adapter goes on to
\* wait for the rate limiter and the fetch.
AdapterPrefix(name, tool, key) ==
    IF UsesCache(name, tool) /\ CacheGet(CacheOf(tool), key) # NoResult
    THEN CacheGet(CacheOf(tool), key)
    ELSE IF ConfigError(name, loadConfig)
    THEN createErrorResult(name, "not configured")
    ELSE IF name = "playwright-mcp"
    THEN Envelope(FALSE, "null", name, "PLAYWRIGHT_MCP_DELEGATION_REQUIRED")
    ELSE NoResult

\* The envelope built after a fetch that worked.
SuccessResult(name) == Envelope(TRUE, "data", name, "absent")

\* ----------------------------------------------------------- orchestrator
\* StrategyOrchestrator.createAdapter: TRUE when it constructs an adapter,
\* FALSE for its default branch (null).
createAdapter(name) == name \in AdapterName

\* The for loop of initialize() over detected[k..]: acc holds the adapter
\* map, the priority order and the number of adapters constructed.
RECURSIVE CreateAdapters(_, _, _)
CreateAdapters(list, k, acc) ==
    IF k > Len(list) THEN acc
    ELSE IF createAdapter(list[k].name)
    THEN CreateAdapters(list, k + 1,
             [adapters |-> [acc.adapters EXCEPT ![list[k].name] = acc.instances + 1],
              priorityOrder |-> Append(acc.priorityOrder, list[k].name),
              instances |-> acc.instances + 1])
    ELSE CreateAdapters(list, k + 1, acc)

\* Where a caller of initialize() goes on once it has returned.
AfterInitialize(c) == IF c = Main THEN "connect" ELSE "call"

\* initialize() without its guard on this.initialized.
InitializeBeginUnguarded(c) ==
    /\ pc[c] = "initialize"
    /\ detect
    /\ consults' = consults + 1
    /\ pc' = [pc EXCEPT ![c] = "initialize_resume"]
    /\ UNCHANGED <<adapters, priorityOrder, initialized, instances>>
    /\ UNCHANGED <<env, ret, detCalls, cacheVars, req, issued>>
    /\ UNCHANGED utilVars

\* initialize() up to its await: the early return, or the detect() call.
InitializeBegin(c) ==
    /\ pc[c] = "initialize"
    /\ \/ /\ initialized
          /\ pc' = [pc EXCEPT ![c] = AfterInitialize(c)]
          /\ UNCHANGED <<detVars, orchVars>>
       \/ /\ ~initialized
          /\ detect
          /\ consults' = consults + 1
          /\ pc' = [pc EXCEPT ![c] = "initialize_resume"]
          /\ UNCHANGED <<adapters, priorityOrder, initialized, instances>>
    /\ UNCHANGED <<env, ret, detCalls, cacheVars, req, issued>>
    /\ UNCHANGED utilVars

\* initialize() after its await: the adapters are created and registered.
InitializeResume(c) ==
    /\ pc[c] = "initialize_resume"
    /\ LET done == CreateAdapters(detected, 1,
                       [adapters |-> adapters, priorityOrder |-> priorityOrder,
                        instances |-> instances])
       IN /\ adapters' = done.adapters
          /\ priorityOrder' = done.priorityOrder
          /\ instances' = done.instances
    /\ initialized' = TRUE
    /\ pc' = [pc EXCEPT ![c] = AfterInitialize(c)]
    /\ UNCHANGED <<env, detVars, ret, detCalls, consults, cacheVars, req, issued>>
    /\ UNCHANGED utilVars

\* The envelope scrape() / search() return after the loop.
AllFailed(tool) ==
    Envelope(FALSE, "null", "standalone",
             IF IsSearch(tool) THEN "All adapters failed for search"
             ELSE "All adapters failed")

\* TRUE when scrape() / search() take the requested-strategy branch.
UsesRequested(strategy) == strategy # "auto" /\ adapters[strategy] # 0

\* ------------------------------------------------------------------- main
\* main(): mcpDetector.detect() for the start-up report.
MainDetect ==
    /\ pc[Main] = "start"
    /\ detect
    /\ pc' = [pc EXCEPT ![Main] = "initialize"]
    /\ UNCHANGED <<env, ret, detCalls, orchVars, cacheVars, req, issued>>
    /\ UNCHANGED utilVars

\* main(): server.connect(transport); requests are served from here on.
MainConnect ==
    /\ pc[Main] = "connect"
    /\ pc' = [pc EXCEPT ![Main] = "serving"]
    /\ UNCHANGED <<env, detVars, ret, detCalls, orchVars, cacheVars, req, issued>>
    /\ UNCHANGED utilVars

\* --------------------------------------------------------------- requests
IdleRequest ==
    [tool |-> "none", strategy |-> "auto", mode |-> "none", i |-> 0,
     calls |-> <<>>, outs |-> <<>>, result |-> NoResult,
     response |-> NoResult, escaped |-> FALSE]

\* The slot the next request is held in: the first idle one, or else the
\* first that holds a finished request.
Free(r) ==
    \/ pc[r] = "idle" /\ \A q \in Req : q < r => pc[q] # "idle"
    \/ /\ pc[r] = "done"
       /\ \A q \in Req : pc[q] # "idle" /\ (q < r => pc[q] # "done")

\* A tool handler is invoked and calls the orchestrator, which first awaits
\* initialize().
ToolCall(r, tool, strategy) ==
    /\ pc[Main] = "serving"
    /\ Free(r)
    /\ req' = [req EXCEPT ![r] = [IdleRequest EXCEPT !.tool = tool, !.strategy = strategy]]
    /\ pc' = [pc EXCEPT ![r] = "initialize"]
    /\ issued' = issued + 1
    /\ UNCHANGED <<env, detVars, ret, detCalls, orchVars, cacheVars>>
    /\ UNCHANGED utilVars

\* The branch scrape() / search() take after initialize().
ModeOf(strategy) == IF UsesRequested(strategy) THEN "requested" ELSE "loop"

\* The adapter invoked by a request in the given mode at loop index i.
Current(mode, strategy, i) ==
    IF mode = "requested" THEN strategy ELSE priorityOrder[i]

\* The loop body without the return on success: the loop runs to its end.
LoopStepIgnoresSuccess(tool, x, i) ==
    IF i < Len(priorityOrder) THEN NoResult
    ELSE IF Succeeded(x) THEN x
    ELSE AllFailed(tool)

\* The loop body without the catch: a throw leaves the loop.
LoopStepRethrows(tool, x, i) ==
    IF x = Threw THEN Threw
    ELSE IF Succeeded(x) THEN x
    ELSE IF i < Len(priorityOrder) THEN NoResult
    ELSE AllFailed(tool)

\* The loop stopping one adapter short of the end of the priority order.
LoopStepStopsEarly(tool, x, i) ==
    IF Succeeded(x) THEN x
    ELSE IF i + 1 < Len(priorityOrder) THEN NoResult
    ELSE AllFailed(tool)

\* The loop returning whatever envelope the adapter gave, failed or not.
LoopStepReturnsAny(tool, x, i) ==
    IF IsEnvelope(x) THEN x
    ELSE IF i < Len(priorityOrder) THEN NoResult
    ELSE AllFailed(tool)

\* The loop body after the awaited adapter call: what the loop does with
\* the adapter's outcome x (an envelope or Threw) at loop index i. Gives
\* the envelope returned, or NoResult when the loop goes on.
LoopStep(tool, x, i) ==
    IF Succeeded(x) THEN x
    ELSE IF i < Len(priorityOrder) THEN NoResult
    ELSE AllFailed(tool)

\* scrape() / search() falling back after the requested adapter as well.
OutcomeFallsBack(mode, tool, x, i) ==
    IF Succeeded(x) THEN x
    ELSE IF i < Len(priorityOrder) THEN NoResult
    ELSE AllFailed(tool)

\* What scrape() / search() return, or raise, once the adapter invoked
\* last has given x; NoResult when another adapter is to be tried.
Outcome(mode, tool, x, i) ==
    IF mode = "requested" THEN x ELSE LoopStep(tool, x, i)

\* The tool handler without its catch block.
HandlerWithoutCatch(result) ==
    [response |-> result, escaped |-> result = Threw]

\* The tool handler's try / catch around the orchestrator call: what it
\* returns to the client and whether an exception leaves the handler.
Handler(result) ==
    IF result = Threw
    THEN [response |-> [kind |-> "envelope", success |-> FALSE, error |-> "thrown"],
          escaped |-> FALSE]
    ELSE [response |-> result, escaped |-> FALSE]

\* Request r after its adapter has given x: the orchestrator returns
\* through the tool handler, or moves on to the next adapter.
Received(r, q, x) ==
    LET out == Outcome(q.mode, q.tool, x, q.i)
    IN /\ req' = [req EXCEPT ![r] =
                     [q EXCEPT !.outs = Append(@, x),
                               !.result = out,
                               !.i = IF out = NoResult THEN @ + 1 ELSE @,
                               !.response = IF out = NoResult THEN NoResult
                                            ELSE Handler(out).response,
                               !.escaped = out # NoResult /\ Handler(out).escaped]]
       /\ pc' = [pc EXCEPT ![r] = IF out = NoResult THEN "call" ELSE "done"]

\* scrape() / search() invoke the next adapter: on the first call the
\* branch is chosen; adapter.scrapeUrl / adapter.search runs to its first
\* suspension, or rejects (threw), or returns at once.
CallAdapter(r, threw) ==
    /\ pc[r] = "call"
    /\ LET mode == IF req[r].mode = "none" THEN ModeOf(req[r].strategy) ELSE req[r].mode
           i == IF req[r].mode = "none" THEN 1 ELSE req[r].i
           name == Current(mode, req[r].strategy, i)
           first == AdapterPrefix(name, req[r].tool, KeyOf(r))
           q == [req[r] EXCEPT !.mode = mode, !.i = i, !.calls = Append(@, name)]
       IN IF threw \/ first # NoResult
          THEN Received(r, q, IF threw THEN Threw ELSE first)
          ELSE /\ req' = [req EXCEPT ![r] = q]
               /\ pc' = [pc EXCEPT ![r] = "fetching"]
    /\ UNCHANGED <<env, detVars, ret, detCalls, orchVars, cacheVars, issued>>
    /\ UNCHANGED utilVars

\* The suspended adapter finishes: the rate limiter let it through and the
\* retried fetch and the parse either worked (the envelope is cached and
\* returned) or raised inside the try block (createErrorResult).
AdapterComplete(r, ok) ==
    /\ pc[r] = "fetching"
    /\ LET name == req[r].calls[Len(req[r].calls)]
           result == IF ok THEN SuccessResult(name)
                     ELSE createErrorResult(name, "fetch failed")
           stores == ok /\ UsesCache(name, req[r].tool)
       IN /\ Received(r, req[r], result)
          /\ scrapeCache' = IF stores /\ ~IsSearch(req[r].tool)
                            THEN CacheSet(scrapeCache, KeyOf(r), result)
                            ELSE scrapeCache
          /\ searchCache' = IF stores /\ IsSearch(req[r].tool)
                            THEN CacheSet(searchCache, KeyOf(r), result)
                            ELSE searchCache
    /\ UNCHANGED <<env, detVars, ret, detCalls, orchVars, issued>>
    /\ UNCHANGED utilVars

\* ----------------------------------------------------------- rate limiter
\* The one-second and one-minute windows of getCounts / getWaitTime and
\* the minimum delay of getWaitTime, in milliseconds.
WindowSecond == 1000
WindowMinute == 60000
minDelay == 500

Max(a, b) == IF a > b THEN a ELSE b

\* RateLimiterOptions; requestsPerMinute 0 stands for an absent option.
RateLimiterOptions ==
    [requestsPerSecond : 1..MaxPerSecond, requestsPerMinute : 0..MaxPerMinute]

\* new RateLimiter(options)
RateLimiter(options) ==
    [requestsPerSecond |-> options.requestsPerSecond,
     requestsPerMinute |-> IF options.requestsPerMinute = 0
                           THEN options.requestsPerSecond * 60
                           ELSE options.requestsPerMinute,
     requests |-> <<>>,
     lastRequestTime |-> 0]

facebookRateLimiter ==
    RateLimiter([requestsPerSecond |-> 1, requestsPerMinute |-> 20])

\* requests.filter(r => r.timestamp > t - window)
Within(requests, t, window) == SelectSeq(requests, LAMBDA x : x > t - window)

\* RateLimiter.cleanup at time t
cleanup(l, t) == [l EXCEPT !.requests = Within(@, t, WindowMinute)]

\* RateLimiter.getCounts at time t
getCounts(l, t) ==
    [perSecond |-> Len(Within(l.requests, t, WindowSecond)),
     perMinute |-> Len(Within(l.requests, t, WindowMinute))]

\* .sort((a, b) => a.timestamp - b.timestamp)[0] of a non-empty list
Oldest(requests) ==
    CHOOSE x \in {requests[j] : j \in 1..Len(requests)} :
        \A j \in 1..Len(requests) : x <= requests[j]

\* The minimum-delay rule at the end of getWaitTime.
DelayWait(l, t) ==
    IF t - l.lastRequestTime < minDelay
    THEN minDelay - (t - l.lastRequestTime)
    ELSE 0

\* The per-minute rule of getWaitTime and what follows it.
MinuteWait(l, t) ==
    IF getCounts(l, t).perMinute >= l.requestsPerMinute
       /\ Within(l.requests, t, WindowMinute) # <<>>
    THEN Max(0, Oldest(Within(l.requests, t, WindowMinute)) + WindowMinute - t)
    ELSE DelayWait(l, t)

\* getWaitTime without its per-second rule.
getWaitTimeWithoutSecondRule(l, t) == MinuteWait(cleanup(l, t), t)

\* RateLimiter.getWaitTime at time t: the value returned (the limiter is
\* left as cleanup(l, t)).
getWaitTime(l, t) ==
    LET c == cleanup(l, t)
    IN IF getCounts(c, t).perSecond >= c.requestsPerSecond
          /\ Within(c.requests, t, WindowSecond) # <<>>
       THEN Max(0, Oldest(Within(c.requests, t, WindowSecond)) + WindowSecond - t)
       ELSE MinuteWait(c, t)

\* RateLimiter.recordRequest at time t
recordRequest(l, t) ==
    cleanup([l EXCEPT !.requests = Append(@, t), !.lastRequestTime = t], t)

\* Time that passes between two events, and by which a timer fires late.
Delays == {0, 100, 300, 700, 1000, 60000}
Lateness == {0, 100}

IdleAcquire == [pc |-> "idle", wake |-> 0, called |-> 0, wait |-> 0]

Sleeping(c) == acq[c].pc = "sleeping"

\* acquire() is called by c, d milliseconds after the last event: it runs
\* getWaitTime and either records the request at once or goes to sleep.
AcquireCall(c, d) ==
    /\ ~Sleeping(c)
    /\ Len(trace) + Cardinality({q \in Req : Sleeping(q)}) < MaxAcquires
    /\ \A q \in Req : Sleeping(q) => now + d <= acq[q].wake
    /\ now' = now + d
    /\ LET t == now + d
           waitTime == getWaitTime(limiter, t)
       IN IF waitTime > 0
          THEN /\ limiter' = cleanup(limiter, t)
               /\ acq' = [acq EXCEPT ![c] = [pc |-> "sleeping", wake |-> t + waitTime,
                                             called |-> t, wait |-> waitTime]]
               /\ trace' = trace
          ELSE /\ limiter' = recordRequest(cleanup(limiter, t), t)
               /\ acq' = acq
               /\ trace' = Append(trace, [caller |-> c, called |-> t, wait |-> 0, at |-> t])
    /\ UNCHANGED notLimiter

\* The timer of c's acquire() fires, on time or late, and the request is
\* recorded.
AcquireResume(c, late) ==
    /\ Sleeping(c)
    /\ \A q \in Req : Sleeping(q) => acq[c].wake <= acq[q].wake
    /\ LET t == Max(now, acq[c].wake + late)
       IN /\ now' = t
          /\ limiter' = recordRequest(limiter, t)
          /\ trace' = Append(trace, [caller |-> c, called |-> acq[c].called,
                                     wait |-> acq[c].wait, at |-> t])
    /\ acq' = [acq EXCEPT ![c] = IdleAcquire]
    /\ UNCHANGED notLimiter

\* ------------------------------------------------------------------ retry
\* Strings that are searched are sequences of characters.
UpperCase == <<"A", "B", "C", "D", "E", "F", "G", "H", "I", "J", "K", "L", "M",
               "N", "O", "P", "Q", "R", "S", "T", "U", "V", "W", "X", "Y", "Z">>
LowerCase == <<"a", "b", "c", "d", "e", "f", "g", "h", "i", "j", "k", "l", "m",
               "n", "o", "p", "q", "r", "s", "t", "u", "v", "w", "x", "y", "z">>

\* String.prototype.toLowerCase
toLowerCase(str) ==
    [j \in 1..Len(str) |->
        IF \E k \in 1..Len(UpperCase) : UpperCase[k] = str[j]
        THEN LowerCase[CHOOSE k \in 1..Len(UpperCase) : UpperCase[k] = str[j]]
        ELSE str[j]]

\* String.prototype.includes
includes(str, part) ==
    \E j \in 0..(Len(str) - Len(part)) : SubSeq(str, j + 1, j + Len(part)) = part

\* A number in a template literal: its decimal digits.
RECURSIVE Decimal(_)
Decimal(n) ==
    LET digit == <<"0", "1", "2", "3", "4", "5", "6", "7", "8", "9">>[(n % 10) + 1]
    IN IF n < 10 THEN <<digit>> ELSE Append(Decimal(n \div 10), digit)

retryableErrors ==
    <<<<"E", "C", "O", "N", "N", "R", "E", "S", "E", "T">>,
      <<"E", "T", "I", "M", "E", "D", "O", "U", "T">>,
      <<"E", "C", "O", "N", "N", "R", "E", "F", "U", "S", "E", "D">>,
      <<"E", "N", "O", "T", "F", "O", "U", "N", "D">>,
      <<"E", "A", "I", "_", "A", "G", "A", "I", "N">>,
      <<"r", "a", "t", "e", " ", "l", "i", "m", "i", "t">>,
      <<"t", "i", "m", "e", "o", "u", "t">>,
      <<"4", "2", "9">>,
      <<"5", "0", "0">>,
      <<"5", "0", "2">>,
      <<"5", "0", "3">>,
      <<"5", "0", "4">>>>

\* DEFAULT_OPTIONS
DEFAULT_OPTIONS ==
    [maxRetries |-> 3, baseDelayMs |-> 1000, maxDelayMs |-> 30000,
     backoffMultiplier |-> 2, retryableErrors |-> retryableErrors]

\* The options withRetry is called with, spread over DEFAULT_OPTIONS.
RetryOptions ==
    {[DEFAULT_OPTIONS EXCEPT !.maxRetries = m, !.maxDelayMs = c, !.baseDelayMs = b] :
        m \in 0..MaxMaxRetries, c \in {1500, 30000}, b \in {3, 1000}}

RECURSIVE Pow(_, _)
Pow(b, e) == IF e = 0 THEN 1 ELSE b * Pow(b, e - 1)

Min(a, b) == IF a < b THEN a ELSE b

\* calculateDelay with a jitter of up to half the capped delay.
calculateDelayWideJitter(attempt, options, r) ==
    LET exponentialDelay == options.baseDelayMs * Pow(options.backoffMultiplier, attempt)
        cappedDelay == Min(exponentialDelay, options.maxDelayMs)
        numerator == cappedDelay * (RandomSteps + 2 * r)
        denominator == 2 * RandomSteps
    IN (2 * numerator + denominator) \div (2 * denominator)

\* calculateDelay that leaves the attempt out of the delay.
calculateDelayWithoutBackoff(attempt, options, r) ==
    LET cappedDelay == Min(options.baseDelayMs, options.maxDelayMs)
        numerator == cappedDelay * (3 * RandomSteps + 2 * r)
        denominator == 4 * RandomSteps
    IN (2 * numerator + denominator) \div (2 * denominator)

\* calculateDelay, with Math.random() = r / RandomSteps:
\* Math.round(capped + capped * 0.25 * (2 * r / RandomSteps - 1)).
calculateDelay(attempt, options, r) ==
    LET exponentialDelay == options.baseDelayMs * Pow(options.backoffMultiplier, attempt)
        cappedDelay == Min(exponentialDelay, options.maxDelayMs)
        numerator == cappedDelay * (3 * RandomSteps + 2 * r)
        denominator == 4 * RandomSteps
    IN (2 * numerator + denominator) \div (2 * denominator)

Error(name, message) == [kind |-> "error", name |-> name, message |-> message]

\* isRetryable that takes every error for a retryable one.
isRetryableAnyError(error, options) == TRUE

\* isRetryable
isRetryable(error, options) ==
    LET errorString == toLowerCase(error.message)
        errorName == toLowerCase(error.name)
    IN \E k \in 1..Len(options.retryableErrors) :
          \/ includes(errorString, toLowerCase(options.retryableErrors[k]))
          \/ includes(errorName, toLowerCase(options.retryableErrors[k]))

\* The errors an operation handed to withRetry fails with.
InvalidInput == Error(<<"E", "r", "r", "o", "r">>, <<"I", "n", "v", "a", "l", "i", "d", "I", "n", "p", "u", "t">>)
TimedOut == Error(<<"E", "r", "r", "o", "r">>, <<"c", "o", "n", "n", "e", "c", "t", " ", "E", "T", "I", "M", "E", "D", "O", "U", "T">>)
RateLimited == Error(<<"E", "r", "r", "o", "r">>, <<"R", "a", "t", "e", " ", "L", "i", "m", "i", "t", " ", "h", "i", "t">>)
NamedTimeout == Error(<<"T", "i", "m", "e", "o", "u", "t", "E", "r", "r", "o", "r">>, <<"s", "l", "o", "w">>)
Errors == {InvalidInput, TimedOut, RateLimited, NamedTimeout}

Value(v) == [kind |-> "value", value |-> v]

\* What one invocation of the operation gives.
Outcomes == {Value("page")} \cup Errors

\* Response.statusText: the reason phrase the server sent, if it sent one.
ReasonPhrase(status) ==
    CASE status = 200 -> <<"O", "K">>
      [] status = 404 -> <<"N", "o", "t", " ", "F", "o", "u", "n", "d">>
      [] status = 429 -> <<"T", "o", "o", " ", "M", "a", "n", "y", " ", "R", "e", "q", "u", "e", "s", "t", "s">>
      [] status = 500 -> <<"I", "n", "t", "e", "r", "n", "a", "l", " ", "S", "e", "r", "v", "e", "r", " ", "E", "r", "r", "o", "r">>
      [] status = 501 -> <<"N", "o", "t", " ", "I", "m", "p", "l", "e", "m", "e", "n", "t", "e", "d">>
      [] status = 503 -> <<"S", "e", "r", "v", "i", "c", "e", " ", "U", "n", "a", "v", "a", "i", "l", "a", "b", "l", "e">>
      [] OTHER -> <<>>

Statuses == {200, 404, 429, 500, 501, 503}

Response(status, statusText) ==
    [kind |-> "response", status |-> status, statusText |-> statusText]

\* What fetch() gives: a response, or a rejection.
Fetched ==
    {Response(status, text) : status \in Statuses, text \in {<<>>}}
    \cup {Response(status, ReasonPhrase(status)) : status \in Statuses}
    \cup {TimedOut}

\* The operation fetchWithRetry hands to withRetry, given what fetch() gave.
FetchOperation(fetched) ==
    IF fetched.kind = "error" THEN fetched
    ELSE IF fetched.status >= 500 \/ fetched.status = 429
    THEN Error(<<"E", "r", "r", "o", "r">>, <<"H", "T", "T", "P", " ">> \o Decimal(fetched.status) \o <<":", " ">> \o fetched.statusText)
    ELSE Value(fetched)

\* lastError kept from the first failed attempt on.
CaughtKeepsFirst(lastError, error) ==
    IF lastError.kind = "error" THEN lastError ELSE error

\* The catch block's assignment to lastError.
Caught(lastError, error) == error

IdleRetry ==
    [pc |-> "idle", fn |-> "none", opts |-> DEFAULT_OPTIONS, attempt |-> 0,
     lastError |-> [kind |-> "null"], invoked |-> 0, fetched |-> <<>>,
     outcomes |-> <<>>, onRetry |-> <<>>, waits |-> <<>>, delay |-> 0,
     result |-> [kind |-> "none"]]

\* withRetry(fn, options) or fetchWithRetry(url, init, options) is called:
\* the loop is entered, or left at once when maxRetries admits no attempt.
RetryCall(fn, options) ==
    /\ retry.pc = "idle"
    /\ retry' = [IdleRetry EXCEPT
                    !.fn = fn, !.opts = options,
                    !.pc = IF 0 <= options.maxRetries THEN "attempt" ELSE "threw",
                    !.result = IF 0 <= options.maxRetries THEN @
                               ELSE Error(<<"E", "r", "r", "o", "r">>, <<"A", "l", "l", " ", "r", "e", "t", "r", "y", " ", "a", "t", "t", "e", "m", "p", "t", "s", " ", "f", "a", "i", "l", "e", "d">>)]
    /\ UNCHANGED notRetry

\* One pass of the loop of withRetry, the awaited operation having given
\* outcome: return, throw, or call onRetry and go to sleep.
Attempted(outcome, r) ==
    LET q == [retry EXCEPT !.invoked = @ + 1, !.outcomes = Append(@, outcome)]
        lastError == Caught(retry.lastError, outcome)
        delay == calculateDelay(retry.attempt, retry.opts, r)
    IN IF outcome.kind = "value"
       THEN [q EXCEPT !.pc = "returned", !.result = outcome]
       ELSE IF retry.attempt >= retry.opts.maxRetries \/ ~isRetryable(lastError, retry.opts)
       THEN [q EXCEPT !.pc = "threw", !.lastError = lastError, !.result = lastError]
       ELSE [q EXCEPT !.pc = "sleeping", !.lastError = lastError, !.delay = delay,
                      !.onRetry = Append(@, [attempt |-> retry.attempt + 1,
                                             error |-> lastError,
                                             nextDelayMs |-> delay])]

\* The operation of a withRetry call is invoked and settles.
Invoke(outcome, r) ==
    /\ retry.pc = "attempt"
    /\ retry.fn = "fn"
    /\ retry' = Attempted(outcome, r)
    /\ UNCHANGED notRetry

\* The operation of a fetchWithRetry call: fetch() settles and the status
\* of the response is looked at.
Fetch(fetched, r) ==
    /\ retry.pc = "attempt"
    /\ retry.fn = "fetch"
    /\ retry' = [Attempted(FetchOperation(fetched), r) EXCEPT
                    !.fetched = Append(@, fetched)]
    /\ UNCHANGED notRetry

\* sleep(delay) is over: the loop goes on, or ends and lastError is thrown.
RetryWake ==
    /\ retry.pc = "sleeping"
    /\ retry' = [retry EXCEPT
                    !.waits = Append(@, retry.delay),
                    !.attempt = @ + 1,
                    !.pc = IF retry.attempt + 1 <= retry.opts.maxRetries
                           THEN "attempt" ELSE "threw",
                    !.result = IF retry.attempt + 1 <= retry.opts.maxRetries
                               THEN @ ELSE retry.lastError]
    /\ UNCHANGED notRetry

\* ------------------------------------------------------------ Cache object
\* The Cache class with its entries' times: the Map is a sequence of
\* entries in insertion order.
Keys == 1..MaxKeys
Values == {"v", "w"}
Absent == "undefined"

\* The options of the caches constructed: a default TTL of 3 ms and a
\* maxEntries of 1 to MaxMaxEntries.
CacheOptions == [defaultTTLMs : {3}, maxEntries : 1..MaxMaxEntries]

\* new Cache(options)
Cache(options) == [options |-> options, cache |-> <<>>]

Has(entries, key) == \E j \in 1..Len(entries) : entries[j].key = key

EntryOf(entries, key) == entries[CHOOSE j \in 1..Len(entries) : entries[j].key = key]

\* Map.prototype.delete
MapDelete(entries, key) == SelectSeq(entries, LAMBDA e : e.key # key)

\* Map.prototype.set: an existing key keeps its place.
MapSet(entries, entry) ==
    IF Has(entries, entry.key)
    THEN [j \in 1..Len(entries) |->
             IF entries[j].key = entry.key THEN entry ELSE entries[j]]
    ELSE Append(entries, entry)

RECURSIVE InsertByCreated(_, _)
InsertByCreated(e, s) ==
    IF s = <<>> THEN <<e>>
    ELSE IF e.createdAt < Head(s).createdAt THEN <<e>> \o s
    ELSE <<Head(s)>> \o InsertByCreated(e, Tail(s))

\* entries.sort((a, b) => a[1].createdAt - b[1].createdAt): stable.
RECURSIVE SortByCreated(_)
SortByCreated(s) ==
    IF s = <<>> THEN <<>>
    ELSE InsertByCreated(s[Len(s)], SortByCreated(SubSeq(s, 1, Len(s) - 1)))

RECURSIVE InsertByExpiry(_, _)
InsertByExpiry(e, s) ==
    IF s = <<>> THEN <<e>>
    ELSE IF e.expiresAt < Head(s).expiresAt THEN <<e>> \o s
    ELSE <<Head(s)>> \o InsertByExpiry(e, Tail(s))

\* The entries sorted by the time they expire instead.
RECURSIVE SortByExpiry(_)
SortByExpiry(s) ==
    IF s = <<>> THEN <<>>
    ELSE InsertByExpiry(s[Len(s)], SortByExpiry(SubSeq(s, 1, Len(s) - 1)))

\* The second half of cleanup(): the oldest entries beyond maxEntries go.
Evicted(entries, maxEntries, sorted) ==
    IF Len(entries) > maxEntries
    THEN LET toRemove == SubSeq(sorted, 1, Len(entries) - maxEntries)
         IN SelectSeq(entries, LAMBDA e : ~Has(toRemove, e.key))
    ELSE entries

\* Cache.cleanup at time t, evicting in the order the entries expire.
Cache_cleanupByExpiry(c, t) ==
    LET live == SelectSeq(c.cache, LAMBDA e : ~(e.expiresAt < t))
        kept == Evicted(live, c.options.maxEntries, SortByExpiry(live))
    IN [object |-> [c EXCEPT !.cache = kept],
        returned |-> Len(c.cache) - Len(kept)]

\* Cache.cleanup at time t: the object it leaves and the number it returns.
Cache_cleanup(c, t) ==
    LET live == SelectSeq(c.cache, LAMBDA e : ~(e.expiresAt < t))
        kept == Evicted(live, c.options.maxEntries, SortByCreated(live))
    IN [object |-> [c EXCEPT !.cache = kept],
        returned |-> (Len(c.cache) - Len(live)) + (Len(live) - Len(kept))]

\* Cache.get that does not look at expiresAt.
Cache_getUnexpiring(c, key, t) ==
    IF ~Has(c.cache, key) THEN [object |-> c, returned |-> Absent]
    ELSE [object |-> c, returned |-> EntryOf(c.cache, key).value]

\* Cache.get at time t
Cache_get(c, key, t) ==
    IF ~Has(c.cache, key) THEN [object |-> c, returned |-> Absent]
    ELSE IF EntryOf(c.cache, key).expiresAt < t
    THEN [object |-> [c EXCEPT !.cache = MapDelete(@, key)], returned |-> Absent]
    ELSE [object |-> c, returned |-> EntryOf(c.cache, key).value]

NoSweep == [ran |-> FALSE, found |-> <<>>, returned |-> 0]

\* Cache.set that leaves the cleaning to the timer.
Cache_setWithoutCleanup(c, key, value, ttlMs, t) ==
    LET ttl == IF ttlMs = 0 THEN c.options.defaultTTLMs ELSE ttlMs
    IN [object |-> [c EXCEPT !.cache = MapSet(@, [key |-> key, value |-> value,
                                                  expiresAt |-> t + ttl,
                                                  createdAt |-> t])],
        swept |-> NoSweep]

\* Cache.set at time t; ttlMs 0 stands for an absent argument. Gives the
\* object it leaves and the cleanup() it ran, if it ran one.
Cache_set(c, key, value, ttlMs, t) ==
    LET ttl == IF ttlMs = 0 THEN c.options.defaultTTLMs ELSE ttlMs
        stored == [c EXCEPT !.cache = MapSet(@, [key |-> key, value |-> value,
                                                 expiresAt |-> t + ttl,
                                                 createdAt |-> t])]
    IN IF Len(stored.cache) * 10 > c.options.maxEntries * 12
       THEN [object |-> Cache_cleanup(stored, t).object,
             swept |-> [ran |-> TRUE, found |-> stored.cache,
                        returned |-> Cache_cleanup(stored, t).returned]]
       ELSE [object |-> stored, swept |-> NoSweep]

\* export const htmlCache = new Cache<string>({ ... })
htmlCache == Cache([defaultTTLMs |-> 2 * 60 * 1000, maxEntries |-> 100])

\* Cache.delete
Cache_delete(c, key) ==
    [object |-> [c EXCEPT !.cache = MapDelete(@, key)], returned |-> Has(c.cache, key)]

IdleCall ==
    [n |-> 0, op |-> "none", key |-> 0, value |-> Absent, ttlMs |-> 0, at |-> 0,
     returned |-> Absent, found |-> <<>>, swept |-> NoSweep, used |-> 0,
     begun |-> 0, invoked |-> 0]

\* The record of a call.
Called(op, key, value, ttlMs, returned, swept) ==
    [n |-> cacheCall.n + 1, op |-> op, key |-> key, value |-> value,
     ttlMs |-> ttlMs, at |-> now, returned |-> returned,
     found |-> SelectSeq(cacheObject.cache, LAMBDA e : e.key = key),
     swept |-> swept, used |-> cacheCall.used, begun |-> now, invoked |-> 0]

InCacheRun == cacheCall.n < MaxCacheCalls

\* The keys are taken into use in their order.
NextKey(key) == key <= cacheCall.used + 1

CallSet(key, value, ttlMs) ==
    /\ InCacheRun /\ NextKey(key)
    /\ cacheObject' = Cache_set(cacheObject, key, value, ttlMs, now).object
    /\ cacheCall' = [Called("set", key, value, ttlMs, Absent,
                            Cache_set(cacheObject, key, value, ttlMs, now).swept)
                        EXCEPT !.used = Max(cacheCall.used, key)]
    /\ UNCHANGED <<now, pending, notCache>>

CallGet(key) ==
    /\ InCacheRun /\ NextKey(key)
    /\ cacheObject' = Cache_get(cacheObject, key, now).object
    /\ cacheCall' = Called("get", key, Absent, 0, Cache_get(cacheObject, key, now).returned, NoSweep)
    /\ UNCHANGED <<now, pending, notCache>>

CallCleanup ==
    /\ InCacheRun
    /\ cacheObject' = Cache_cleanup(cacheObject, now).object
    /\ cacheCall' = Called("cleanup", 0, Absent, 0, Absent,
                           [ran |-> TRUE, found |-> cacheObject.cache,
                            returned |-> Cache_cleanup(cacheObject, now).returned])
    /\ UNCHANGED <<now, pending, notCache>>

CallDelete(key) ==
    /\ InCacheRun /\ Has(cacheObject.cache, key)
    /\ cacheObject' = Cache_delete(cacheObject, key).object
    /\ cacheCall' = Called("delete", key, Absent, 0, Cache_delete(cacheObject, key).returned, NoSweep)
    /\ UNCHANGED <<now, pending, notCache>>

IdlePending == [pc |-> "idle", key |-> 0, ttlMs |-> 0, found |-> <<>>, at |-> 0]

\* getOrSet that takes every lookup for a miss.
HitNever(cached) == FALSE

\* getOrSet: cached !== undefined
Hit(cached) == cached # Absent

\* getOrSet(key, factory, ttlMs) is called: get(key), and either the
\* cached value is returned or factory() is invoked and awaited.
GetOrSetCall(key, ttlMs) ==
    /\ cacheCall.n + 1 < MaxCacheCalls /\ NextKey(key)
    /\ pending.pc = "idle"
    /\ LET got == Cache_get(cacheObject, key, now)
       IN /\ cacheObject' = got.object
          /\ IF Hit(got.returned)
             THEN /\ cacheCall' = Called("getOrSet", key, Absent, ttlMs, got.returned, NoSweep)
                  /\ pending' = pending
             ELSE /\ cacheCall' = Called("get", key, Absent, 0, got.returned, NoSweep)
                  /\ pending' = [pc |-> "awaiting", key |-> key, ttlMs |-> ttlMs,
                                 found |-> Called("get", key, Absent, 0, Absent, NoSweep).found,
                                 at |-> now]
    /\ UNCHANGED <<now, notCache>>

\* The factory of the pending getOrSet resolves with value: set(key,
\* value, ttlMs), and value is returned.
FactoryResolves(value) ==
    /\ pending.pc = "awaiting"
    /\ cacheObject' = Cache_set(cacheObject, pending.key, value, pending.ttlMs, now).object
    /\ cacheCall' = [Called("getOrSet", pending.key, value, pending.ttlMs, value,
                            Cache_set(cacheObject, pending.key, value, pending.ttlMs, now).swept)
                        EXCEPT !.used = Max(cacheCall.used, pending.key),
                               !.found = pending.found,
                               !.begun = pending.at,
                               !.invoked = 1]
    /\ pending' = IdlePending
    /\ UNCHANGED <<now, notCache>>

\* The factory of the pending getOrSet rejects: getOrSet rejects with it
\* and nothing is stored.
FactoryRejects ==
    /\ pending.pc = "awaiting"
    /\ cacheCall' = [Called("getOrSet", pending.key, Absent, pending.ttlMs, "threw", NoSweep)
                        EXCEPT !.found = pending.found,
                               !.begun = pending.at,
                               !.invoked = 1]
    /\ pending' = IdlePending
    /\ UNCHANGED <<now, cacheObject, notCache>>

\* Time passes between two calls.
CacheTick(d) ==
    /\ now + d <= WindowMinute + MaxCacheTime
    /\ now' = now + d
    /\ UNCHANGED <<objVars, notCache>>

\* ------------------------------------------------------ Cache.generateKey
\* A JavaScript value: a number, or an object with its fields in insertion
\* order; NoOptions is an options argument that was not given.
Number(n) == [type |-> "number", number |-> n, fields |-> <<>>]
Object(fields) == [type |-> "object", number |-> 0, fields |-> fields]
NoOptions == [type |-> "undefined", number |-> 0, fields |-> <<>>]

\* The option objects generateKey is called with: up to two fields named
\* a and b, in either order, each a number or an object of one field.
FieldValues ==
    {Number(n) : n \in 1..MaxNumber}
    \cup {Object(<<[name |-> f, value |-> Number(n)]>>) : f \in {"a", "x"}, n \in 1..MaxNumber}

OptionObjects ==
    {Object(<<>>)}
    \cup {Object(<<[name |-> f, value |-> v]>>) : f \in {"a", "b"}, v \in FieldValues}
    \cup {Object(<<[name |-> "a", value |-> v], [name |-> "b", value |-> w]>>) :
             v \in FieldValues, w \in FieldValues}
    \cup {Object(<<[name |-> "b", value |-> w], [name |-> "a", value |-> v]>>) :
             v \in FieldValues, w \in FieldValues}

Urls == {<<"u">>, <<"v">>}

\* Object.keys(o): the names of the fields in insertion order.
ObjectKeys(o) == [j \in 1..Len(o.fields) |-> o.fields[j].name]

\* The UTF-16 code unit of a lower-case letter.
CodeUnit(ch) == 96 + CHOOSE k \in 1..Len(LowerCase) : LowerCase[k] = ch

RECURSIVE InsertByCodeUnit(_, _)
InsertByCodeUnit(name, names) ==
    IF names = <<>> THEN <<name>>
    ELSE IF CodeUnit(name) < CodeUnit(Head(names)) THEN <<name>> \o names
    ELSE <<Head(names)>> \o InsertByCodeUnit(name, Tail(names))

\* Array.prototype.sort() of one-letter names: ascending code units.
RECURSIVE sort(_)
sort(names) ==
    IF names = <<>> THEN <<>>
    ELSE InsertByCodeUnit(names[Len(names)], sort(SubSeq(names, 1, Len(names) - 1)))

HasField(o, name) == \E j \in 1..Len(o.fields) : o.fields[j].name = name

FieldOf(o, name) == o.fields[CHOOSE j \in 1..Len(o.fields) : o.fields[j].name = name].value

\* JSON.stringify(value, K) with an array K as replacer: of every object,
\* at every depth, the properties named in K are written, in the order of
\* K, and no other.
RECURSIVE JSON_stringify(_, _)
RECURSIVE Members(_, _, _)
Members(o, K, j) ==
    IF j > Len(K) THEN <<>>
    ELSE IF HasField(o, K[j])
    THEN (IF \E i \in 1..(j - 1) : HasField(o, K[i]) THEN <<",">> ELSE <<>>)
         \o <<"\"", K[j], "\"", ":">> \o JSON_stringify(FieldOf(o, K[j]), K)
         \o Members(o, K, j + 1)
    ELSE Members(o, K, j + 1)

JSON_stringify(value, K) ==
    IF value.type = "number" THEN Decimal(value.number)
    ELSE <<"{">> \o Members(value, K, 1) \o <<"}">>

\* Cache.generateKey(url, options)
Cache_generateKey(url, options) ==
    LET optionsString == IF options.type = "undefined" THEN <<>>
                         ELSE JSON_stringify(options, sort(ObjectKeys(options)))
    IN url \o <<":">> \o optionsString

\* Cache.generateKey is called.
GenerateKeyCall(url, options) ==
    /\ Len(keyed) < MaxKeyCalls
    /\ keyed' = Append(keyed, [url |-> url, options |-> options,
                               key |-> Cache_generateKey(url, options)])
    /\ UNCHANGED notKeyed

\* No parsePosts call has been made.
NotParsed == [done |-> FALSE]

NotDelegated == [n |-> 0, op |-> "none"]

\* A scrapeUrl / search call of the StandaloneAdapter that is not under way.
IdleAttempt == [pc |-> "idle", attempt |-> 0, browser |-> 0, context |-> 0, ok |-> FALSE]

\* buildFacebookUrl has not been called.
NotBuilt == [calls |-> 0]

\* No context has been opened.
NoContexts == [list |-> <<>>, n |-> 0, call |-> [c \in Req |-> IdleAttempt]]

\* No adapter call has been made.
IdleScrape ==
    [pc |-> "idle", n |-> 0, name |-> "none", tool |-> "none", url |-> "none",
     steps |-> <<>>, result |-> NoResult, before |-> <<>>]

\* ------------------------------------------------------ StandaloneAdapter
\* new StandaloneAdapter(): browser is null (0); no browser has been
\* launched; no scrapeUrl / search call is under way.
StandaloneAdapter ==
    [browser |-> 0, launched |-> <<>>,
     call |-> [c \in Req |-> [pc |-> "idle", browser |-> 0]],
     cleanup |-> "idle"]

\* scrapeWithContext / searchWithContext of call c reach getBrowser(): with
\* no browser in the field chromium.launch() is called and awaited;
\* otherwise the browser of the field is returned and its newContext()
\* is awaited.
GetBrowser(c) ==
    /\ standalone.call[c].pc = "idle"
    /\ Len(standalone.launched) + Cardinality({q \in Req : standalone.call[q].pc = "launching"})
          < MaxLaunches
    /\ standalone' =
          IF standalone.browser = 0
          THEN [standalone EXCEPT !.call[c] = [pc |-> "launching", browser |-> 0]]
          ELSE [standalone EXCEPT !.call[c] = [pc |-> "context", browser |-> standalone.browser]]
    /\ UNCHANGED notStandalone

\* chromium.launch() of call c resolves: the new browser is assigned to
\* the field, the field is returned, and a context is created in it.
LaunchResolves(c) ==
    /\ standalone.call[c].pc = "launching"
    /\ standalone' =
          [standalone EXCEPT !.launched = Append(@, "open"),
                             !.browser = Len(standalone.launched) + 1,
                             !.call[c] = [pc |-> "context",
                                          browser |-> Len(standalone.launched) + 1]]
    /\ UNCHANGED notStandalone

\* chromium.launch() of call c rejects: the call fails.
LaunchRejects(c) ==
    /\ standalone.call[c].pc = "launching"
    /\ standalone' = [standalone EXCEPT !.call[c] = [pc |-> "idle", browser |-> 0]]
    /\ UNCHANGED notStandalone

\* The finally block of call c: closeContext(context).
CloseContext(c) ==
    /\ standalone.call[c].pc = "context"
    /\ standalone' = [standalone EXCEPT !.call[c] = [pc |-> "idle", browser |-> 0]]
    /\ UNCHANGED notStandalone

\* cleanup() up to its await: the browser of the field is closed.
StandaloneCleanupBegin ==
    /\ standalone.cleanup = "idle"
    /\ standalone.browser # 0
    /\ standalone' = [standalone EXCEPT !.launched[standalone.browser] = "closed",
                                        !.cleanup = "closing"]
    /\ UNCHANGED notStandalone

\* cleanup() after its await: the field is set to null.
StandaloneCleanupEnd ==
    /\ standalone.cleanup = "closing"
    /\ standalone' = [standalone EXCEPT !.browser = 0, !.cleanup = "idle"]
    /\ UNCHANGED notStandalone

\* ---------------------------------------------------------- specification
\* The utilities as the modules of the server construct them.
InitUtilities ==
    /\ now = WindowMinute
    /\ limiter = facebookRateLimiter
    /\ acq = [c \in Req |-> IdleAcquire]
    /\ trace = <<>>
    /\ retry = IdleRetry
    /\ cacheObject = htmlCache
    /\ cacheCall = IdleCall
    /\ pending = IdlePending
    /\ keyed = <<>>
    /\ standalone = StandaloneAdapter
    /\ parsed = NotParsed
    /\ delegated = NotDelegated
    /\ scrape = IdleScrape
    /\ contexts = NoContexts
    /\ built = NotBuilt

InitServer ==
    /\ detected = <<>>
    /\ detInitialized = FALSE
    /\ configReads = 0
    /\ ret = [op |-> "none", value |-> <<>>, config |-> env]
    /\ detCalls = 0
    /\ adapters = [n \in AdapterName |-> 0]
    /\ priorityOrder = <<>>
    /\ initialized = FALSE
    /\ instances = 0
    /\ consults = 0
    /\ scrapeCache = <<>>
    /\ searchCache = <<>>
    /\ pc = [c \in Callers |-> IF c = Main THEN "start" ELSE "idle"]
    /\ req = [r \in Req |-> IdleRequest]
    /\ issued = 0

Init == env \in Config /\ InitServer /\ InitUtilities

Next ==
    \/ MainDetect
    \/ \E c \in Callers : InitializeBegin(c)
    \/ \E c \in Callers : InitializeResume(c)
    \/ MainConnect
    \/ \E r \in Req, tool \in Tools, strategy \in Strategy :
          issued < MaxRequests /\ ToolCall(r, tool, strategy)
    \/ \E r \in Req, threw \in BOOLEAN : CallAdapter(r, threw)
    \/ \E r \in Req, ok \in BOOLEAN : AdapterComplete(r, ok)

Spec == Init /\ [][Next]_vars

\* ------------------------------------- repeated requests in auto mode
\* The same server, serving page scrapes and searches in auto mode only,
\* one request more than under Spec.
NextAuto ==
    \/ MainDetect
    \/ \E c \in Callers : InitializeBegin(c)
    \/ \E c \in Callers : InitializeResume(c)
    \/ MainConnect
    \/ \E r \in Req, tool \in {"fb_scrape_page", "fb_search"} :
          issued < MaxAutoRequests /\ ToolCall(r, tool, "auto")
    \/ \E r \in Req, threw \in BOOLEAN : CallAdapter(r, threw)
    \/ \E r \in Req, ok \in BOOLEAN : AdapterComplete(r, ok)

SpecAuto == Init /\ [][NextAuto]_vars

\* ---------------------------------------------- the detector on its own
\* The environment changes under the running process.
SetEnv(config) ==
    /\ config # env
    /\ env' = config
    /\ UNCHANGED <<detVars, ret, detCalls, orchVars, cacheVars, pc, req, issued>>
    /\ UNCHANGED utilVars

CallDetect ==
    /\ detCalls < MaxDetectorCalls
    /\ detect
    /\ ret' = [op |-> "detect", value |-> DetectResult, config |-> env]
    /\ detCalls' = detCalls + 1
    /\ UNCHANGED <<env, orchVars, cacheVars, pc, req, issued>>
    /\ UNCHANGED utilVars

CallGetDetected ==
    /\ detCalls < MaxDetectorCalls
    /\ ret' = [op |-> "getDetected", value |-> detected, config |-> env]
    /\ detCalls' = detCalls + 1
    /\ UNCHANGED <<env, detVars, orchVars, cacheVars, pc, req, issued>>
    /\ UNCHANGED utilVars

CallIsAvailable(name) ==
    /\ detCalls < MaxDetectorCalls
    /\ ret' = [op |-> "isAvailable", value |-> <<name, isAvailable(name)>>, config |-> env]
    /\ detCalls' = detCalls + 1
    /\ UNCHANGED <<env, detVars, orchVars, cacheVars, pc, req, issued>>
    /\ UNCHANGED utilVars

CallGetFirst ==
    /\ detCalls < MaxDetectorCalls
    /\ ret' = [op |-> "getFirst", value |-> <<getFirst>>, config |-> env]
    /\ detCalls' = detCalls + 1
    /\ UNCHANGED <<env, detVars, orchVars, cacheVars, pc, req, issued>>
    /\ UNCHANGED utilVars

NextDetector ==
    \/ \E config \in Config : SetEnv(config)
    \/ CallDetect
    \/ CallGetDetected
    \/ \E name \in AdapterName : CallIsAvailable(name)
    \/ CallGetFirst

SpecDetector == Init /\ [][NextDetector]_vars

\* --------------------------------------------- the rate limiter on its own
NoCredentials ==
    [brightdata_token |-> FALSE, firecrawl_api_key |-> FALSE,
     playwright_mcp_enabled |-> FALSE]

\* A limiter constructed with any of the options, and acquire() calls made
\* one after another: each has returned before the next is made.
InitLimiter ==
    /\ env = NoCredentials
    /\ InitServer
    /\ now = WindowMinute
    /\ limiter \in {RateLimiter(options) : options \in RateLimiterOptions}
    /\ acq = [c \in Req |-> IdleAcquire]
    /\ trace = <<>>
    /\ retry = IdleRetry
    /\ cacheObject = htmlCache
    /\ cacheCall = IdleCall
    /\ pending = IdlePending
    /\ keyed = <<>>
    /\ standalone = StandaloneAdapter
    /\ parsed = NotParsed
    /\ delegated = NotDelegated
    /\ scrape = IdleScrape
    /\ contexts = NoContexts
    /\ built = NotBuilt

\* The one caller of the sequential runs.
Caller == CHOOSE c \in Req : \A q \in Req : c <= q

NextLimiter ==
    \/ \E d \in Delays :
          (\A q \in Req : ~Sleeping(q)) /\ AcquireCall(Caller, d)
    \/ \E c \in Req, late \in Lateness : AcquireResume(c, late)

SpecLimiter == InitLimiter /\ [][NextLimiter]_vars

\* The limiter of the server, facebookRateLimiter, with acquire() calls
\* that may be pending at the same time.
NextLimiterConcurrent ==
    \/ \E c \in Req, d \in Delays : AcquireCall(c, d)
    \/ \E c \in Req, late \in Lateness : AcquireResume(c, late)

\* The utilities as constructed, in a process without credentials.
InitAlone ==
    /\ env = NoCredentials
    /\ InitServer
    /\ InitUtilities

SpecLimiterConcurrent == InitAlone /\ [][NextLimiterConcurrent]_vars

\* ------------------------------------------------- the retry on its own
\* One call of withRetry or of fetchWithRetry, with any of the options and
\* an operation that settles in any of the ways at every invocation.
NextRetry ==
    \/ \E fn \in {"fn", "fetch"}, options \in RetryOptions : RetryCall(fn, options)
    \/ \E outcome \in Outcomes, r \in 0..(RandomSteps - 1) : Invoke(outcome, r)
    \/ \E fetched \in Fetched, r \in 0..(RandomSteps - 1) : Fetch(fetched, r)
    \/ RetryWake

SpecRetry == InitAlone /\ [][NextRetry]_vars

\* ------------------------------------------- a Cache object on its own
InitCache ==
    /\ env = NoCredentials
    /\ InitServer
    /\ now = WindowMinute
    /\ limiter = facebookRateLimiter
    /\ acq = [c \in Req |-> IdleAcquire]
    /\ trace = <<>>
    /\ retry = IdleRetry
    /\ cacheObject \in {Cache(options) : options \in CacheOptions}
    /\ cacheCall = IdleCall
    /\ pending = IdlePending
    /\ keyed = <<>>
    /\ standalone = StandaloneAdapter
    /\ parsed = NotParsed
    /\ delegated = NotDelegated
    /\ scrape = IdleScrape
    /\ contexts = NoContexts
    /\ built = NotBuilt

NextCache ==
    \/ \E key \in Keys, value \in Values, ttlMs \in {0, 1} : CallSet(key, value, ttlMs)
    \/ \E key \in Keys : CallGet(key)
    \/ CallCleanup
    \/ \E key \in Keys : CallDelete(key)
    \/ \E d \in {1, 3} : CacheTick(d)

SpecCache == InitCache /\ [][NextCache]_vars

\* getOrSet calls on a Cache object, one awaiting its factory at a time,
\* with set calls of other callers and time passing in between.
NextGetOrSet ==
    \/ \E key \in Keys, ttlMs \in {0, 1} : GetOrSetCall(key, ttlMs)
    \/ \E value \in Values : FactoryResolves(value)
    \/ FactoryRejects
    \/ \E key \in Keys, value \in Values, ttlMs \in {0, 1} : CallSet(key, value, ttlMs)
    \/ \E d \in {3} : CacheTick(d)

SpecGetOrSet == InitCache /\ [][NextGetOrSet]_vars

\* --------------------------------------------- Cache.generateKey on its own
\* Two calls of generateKey with any of the urls and option objects.
NextGenerateKey ==
    \E url \in Urls, options \in OptionObjects \cup {NoOptions} : GenerateKeyCall(url, options)

SpecGenerateKey == InitAlone /\ [][NextGenerateKey]_vars

\* ------------------------------------------- a StandaloneAdapter on its own
\* scrapeUrl / search calls that run on one adapter at the same time, and
\* cleanup().
NextStandalone ==
    \/ \E c \in Req : GetBrowser(c)
    \/ \E c \in Req : LaunchResolves(c)
    \/ \E c \in Req : LaunchRejects(c)
    \/ \E c \in Req : CloseContext(c)
    \/ StandaloneCleanupBegin
    \/ StandaloneCleanupEnd

SpecStandalone == InitAlone /\ [][NextStandalone]_vars

\* ------------------------------------------------- vocabulary of the claims
IsPrefix(s, t) == Len(s) <= Len(t) /\ s = SubSeq(t, 1, Len(s))

NoDuplicates(s) == \A j, k \in 1..Len(s) : s[j] = s[k] => j = k

Count(s, x) == Cardinality({j \in 1..Len(s) : s[j] = x})

\* success, returned failure or throw
Label(x) ==
    IF x = Threw THEN "throw" ELSE IF x.success THEN "success" ELSE "failure"

Labels(outs) == [j \in 1..Len(outs) |-> Label(outs[j])]

NoSuccess(outs) == \A j \in 1..Len(outs) : ~Succeeded(outs[j])

IsScrape(r) == req[r].tool \in ScrapeTools

\* Request r has been dispatched by scrape() / search().
Dispatched(r) == pc[r] \in {"fetching", "done"} \/ (pc[r] = "call" /\ req[r].mode # "none")

Registered(name) == adapters[name] # 0

\* ---------------------------------------------------------------------- C1
\* C1: in auto mode scrape returns the envelope of the first backend in
\* priority order whose scrapeUrl returned success = true, at once: the
\* backends invoked are exactly those up to it, in priority order, and no
\* backend after it is invoked.
C1_FirstSuccessWins ==
    \A r \in Req :
        (IsScrape(r) /\ req[r].strategy = "auto"
           /\ \E j \in 1..Len(req[r].outs) : Succeeded(req[r].outs[j]))
        => LET q == req[r]
               n == Len(q.outs)
           IN /\ pc[r] = "done"
              /\ Succeeded(q.outs[n])
              /\ \A j \in 1..(n - 1) : ~Succeeded(q.outs[j])
              /\ q.result = q.outs[n]
              /\ q.response = q.outs[n]
              /\ q.calls = SubSeq(priorityOrder, 1, n)

\* A finished auto scrape that was won by a backend that is neither the
\* first nor the last in the priority order.
C1_Witness ==
    \E r \in Req :
        /\ pc[r] = "done" /\ IsScrape(r) /\ req[r].strategy = "auto"
        /\ Succeeded(req[r].result)
        /\ Len(req[r].calls) >= 2
        /\ Len(req[r].calls) < Len(priorityOrder)

\* ---------------------------------------------------------------------- C2
\* C2: in auto mode a backend that throws and a backend that returns
\* success = false both make scrape go on to the next backend in priority
\* order; within one request the backends invoked are a prefix of the
\* priority order, each invoked at most once.
C2_FailureAdvances ==
    \A r \in Req :
        (IsScrape(r) /\ req[r].strategy = "auto")
        => LET q == req[r]
           IN /\ IsPrefix(q.calls, priorityOrder)
              /\ NoDuplicates(q.calls)
              /\ Len(q.outs) <= Len(q.calls)
              /\ Len(q.calls) <= Len(q.outs) + 1
              /\ \A j \in 1..Len(q.outs) :
                    (~Succeeded(q.outs[j]) /\ j < Len(priorityOrder))
                    => \/ Len(q.calls) >= j + 1 /\ q.calls[j + 1] = priorityOrder[j + 1]
                       \/ pc[r] = "call" /\ q.i = j + 1 /\ q.result = NoResult

\* An auto scrape in which one backend threw, another returned a failure
\* envelope, and a third backend has been invoked after both.
C2_Witness ==
    \E r \in Req :
        /\ IsScrape(r) /\ req[r].strategy = "auto"
        /\ Len(req[r].calls) >= 3
        /\ \E j, k \in 1..Len(req[r].outs) :
              /\ req[r].outs[j] = Threw
              /\ IsEnvelope(req[r].outs[k]) /\ ~req[r].outs[k].success

\* ---------------------------------------------------------------------- C3
\* C3 as stated: whenever every outcome a scrape request got from the
\* backends is a throw or a failure envelope, the request ends with the
\* envelope {false, null, 'standalone', 'All adapters failed'} after every
\* registered backend has been invoked once.
C3_AsStated ==
    \A r \in Req :
        (pc[r] = "done" /\ IsScrape(r) /\ NoSuccess(req[r].outs))
        => /\ req[r].response = Envelope(FALSE, "null", "standalone", "All adapters failed")
           /\ req[r].calls = priorityOrder

\* C3 as amended: the same, for the requests that do not name a
\* registered backend (auto mode, and a strategy that is not registered).
C3_AllFailed ==
    \A r \in Req :
        (pc[r] = "done" /\ IsScrape(r) /\ NoSuccess(req[r].outs)
           /\ ~(req[r].strategy # "auto" /\ Registered(req[r].strategy)))
        => /\ req[r].response = Envelope(FALSE, "null", "standalone", "All adapters failed")
           /\ req[r].result = req[r].response
           /\ req[r].calls = priorityOrder
           /\ Len(req[r].outs) = Len(priorityOrder)
           /\ NoDuplicates(req[r].calls)

\* An auto scrape over four registered backends that all failed.
C3_Witness ==
    \E r \in Req :
        /\ pc[r] = "done" /\ IsScrape(r) /\ req[r].strategy = "auto"
        /\ Len(priorityOrder) = 4
        /\ NoSuccess(req[r].outs)
        /\ Len(req[r].outs) = 4
        /\ req[r].response.error = "All adapters failed"

\* ---------------------------------------------------------------------- C4
\* C4: a scrape whose strategy names a registered backend X invokes X
\* once and no other backend, and returns what X gave, a failure envelope
\* included.
C4_RequestedOnly ==
    \A r \in Req :
        (IsScrape(r) /\ Dispatched(r)
           /\ req[r].strategy # "auto" /\ Registered(req[r].strategy))
        => LET q == req[r]
           IN /\ q.calls \in {<<>>, <<q.strategy>>}
              /\ pc[r] = "done"
                 => /\ q.calls = <<q.strategy>>
                    /\ Len(q.outs) = 1
                    /\ q.result = q.outs[1]
                    /\ IsEnvelope(q.result) => q.response = q.result

\* A finished scrape that named a registered backend other than the first
\* in the priority order and got that backend's failure envelope back.
C4_Witness ==
    \E r \in Req :
        /\ pc[r] = "done" /\ IsScrape(r)
        /\ req[r].strategy # "auto" /\ Registered(req[r].strategy)
        /\ req[r].strategy # priorityOrder[1]
        /\ IsEnvelope(req[r].result) /\ ~req[r].result.success
        /\ req[r].result.adapter_used = req[r].strategy
        /\ req[r].response = req[r].result

\* ---------------------------------------------------------------------- C5
\* C5: a scrape or search whose strategy names a backend that is not
\* registered invokes no backend and ends as a failure.
C5_UnregisteredNoFallback ==
    \A r \in Req :
        (Dispatched(r) /\ req[r].strategy # "auto" /\ ~Registered(req[r].strategy))
        => /\ req[r].calls = <<>>
           /\ pc[r] = "done" => ~req[r].response.success

\* ---------------------------------------------------------------------- C6
\* C6: whatever the backends do (succeed, return a failure, throw), each
\* of the four tools ends with a result envelope and no exception leaves
\* the handler.
C6_AlwaysEnvelope ==
    \A r \in Req :
        pc[r] = "done"
        => /\ req[r].tool \in Tools
           /\ IsEnvelope(req[r].response)
           /\ req[r].response.success \in BOOLEAN
           /\ ~req[r].escaped
           /\ req[r].result = Threw => ~req[r].response.success

\* A finished request whose orchestrator call raised: the requested
\* backend threw.
C6_Witness ==
    \E r \in Req :
        /\ pc[r] = "done"
        /\ req[r].result = Threw
        /\ IsEnvelope(req[r].response) /\ ~req[r].response.success

\* ---------------------------------------------------------------------- C7
\* C7: once initialize() has completed, every later step (the later
\* initialize(), scrape and search calls among them) leaves the adapter
\* map and the priority order as they are; the detector has been consulted
\* by initialize() once, and every detected backend has one adapter
\* instance of its own and one entry in the priority order.
C7_InitializeIdempotent ==
    /\ [](initialized
          => /\ consults = 1
             /\ instances = Len(detected)
             /\ Len(priorityOrder) = Len(detected)
             /\ \A k \in 1..Len(detected) :
                   /\ Count(priorityOrder, detected[k].name) = 1
                   /\ adapters[detected[k].name] # 0
             /\ \A n, m \in AdapterName :
                   (adapters[n] # 0 /\ adapters[n] = adapters[m]) => n = m
             /\ \A n \in AdapterName :
                   adapters[n] # 0 => \E k \in 1..Len(detected) : detected[k].name = n)
    /\ [][initialized
          => /\ initialized'
             /\ adapters' = adapters
             /\ priorityOrder' = priorityOrder
             /\ consults' = consults
             /\ instances' = instances]_vars

\* Two requests have called initialize() after main()'s call completed
\* and have gone on to their adapters.
C7_Witness ==
    /\ initialized
    /\ pc[Main] = "serving"
    /\ issued = 2
    /\ \A r \in Req : pc[r] \in {"call", "fetching", "done"}
    /\ \E r \in Req : pc[r] = "done" /\ IsSearch(req[r].tool)
    /\ \E r \in Req : IsScrape(r)

\* ---------------------------------------------------------------------- C8
\* C8: a finished search and a finished scrape of the same server that
\* were given the same strategy and got the same outcomes from the
\* backends (success, returned failure, throw) invoked the same sequence
\* of backends and ended alike, with the same success flag and the same
\* adapter_used.
C8_SearchMirrorsScrape ==
    \A r, s \in Req :
        (/\ pc[r] = "done" /\ IsScrape(r)
         /\ pc[s] = "done" /\ IsSearch(req[s].tool)
         /\ req[r].strategy = req[s].strategy
         /\ Labels(req[r].outs) = Labels(req[s].outs))
        => /\ req[r].calls = req[s].calls
           /\ Label(req[r].result) = Label(req[s].result)
           /\ (IsEnvelope(req[r].result) /\ IsEnvelope(req[s].result))
              => /\ req[r].result.success = req[s].result.success
                 /\ req[r].result.adapter_used = req[s].result.adapter_used

\* ---------------------------------------------------------------------- C9
\* The detection list is in strictly increasing priority, every entry is
\* available and carries the priority of its backend, and standalone is
\* its last entry.
Sorted(list) ==
    /\ \A j \in 1..(Len(list) - 1) : list[j].priority < list[j + 1].priority
    /\ \A j \in 1..Len(list) :
          /\ list[j].available
          /\ list[j].name = "brightdata" => list[j].priority = 1
          /\ list[j].name = "firecrawl" => list[j].priority = 2
          /\ list[j].name = "playwright-mcp" => list[j].priority = 3
          /\ list[j].name = "standalone" => list[j].priority = 4
          /\ list[j].name \in AdapterName
    /\ Len(list) >= 1
    /\ list[Len(list)].name = "standalone"

Lists(list, name) == \E j \in 1..Len(list) : list[j].name = name

\* Each optional backend is listed exactly when its credential or flag is set.
Gated(list, config) ==
    /\ Lists(list, "brightdata") <=> config.brightdata_token
    /\ Lists(list, "firecrawl") <=> config.firecrawl_api_key
    /\ Lists(list, "playwright-mcp") <=> config.playwright_mcp_enabled
    /\ Lists(list, "standalone")

\* C9: the list detect() builds is sorted strictly by priority; it holds
\* brightdata (1), firecrawl (2) and playwright-mcp (3) exactly when the
\* token, the key and the flag are set in the configuration it reads, and
\* it always holds standalone (4), last.
C9_DetectionList ==
    /\ [](detInitialized => Sorted(detected))
    /\ [][(~detInitialized /\ detInitialized') => Gated(detected', env)]_vars
    /\ [](ret.op = "detect" => Sorted(ret.value))

\* detect() has run where the token and the flag are set and the key is
\* not: the list is brightdata, playwright-mcp, standalone.
C9_Witness ==
    /\ detInitialized
    /\ ret.op = "detect"
    /\ Len(ret.value) = 3
    /\ ret.value[1].name = "brightdata"
    /\ ret.value[2].name = "playwright-mcp"
    /\ ret.value[3].name = "standalone"
    /\ detected = ret.value

\* --------------------------------------------------------------------- C10
\* C10: once detect() has run, the stored list never changes, whatever
\* happens to the environment: every later detect() returns it and reads
\* no configuration, and isAvailable and getFirst answer from the stored
\* list and leave it alone.
C10_Memoized ==
    /\ [][detInitialized
          => /\ detInitialized'
             /\ detected' = detected
             /\ configReads' = configReads]_vars
    /\ [](ret.op = "detect" => ret.value = detected)
    /\ [][(detCalls' # detCalls /\ ret'.op \in {"isAvailable", "getFirst"})
          => UNCHANGED detVars]_vars
    /\ [](ret.op = "isAvailable" => ret.value[2] = Lists(detected, ret.value[1]))
    /\ [](ret.op = "getFirst"
          => ret.value[1] = IF detected = <<>> THEN "standalone" ELSE detected[1].name)

\* A detect() call made in the present environment returned a list that
\* this environment would not give: the list of an earlier detection.
C10_Witness ==
    /\ detInitialized
    /\ ret.op = "detect"
    /\ ret.config = env
    /\ ret.value = detected
    /\ ret.value # SortByPriority(Mcps(env))
    /\ configReads = 1

\* --------------------------------------------------------------------- C11
\* C11: in auto mode neither scrape nor search ever invokes a backend
\* whose credential or flag was absent from the configuration detection
\* read (the environment does not change in this specification).
C11_UndetectedNeverInvoked ==
    \A r \in Req :
        req[r].strategy = "auto"
        => \A j \in 1..Len(req[r].calls) :
              /\ ~ConfigError(req[r].calls[j], env)
              /\ Lists(detected, req[r].calls[j])

\* An auto request that went through every registered backend while one
\* credential was set and another credential and the flag were not.
C11_Witness ==
    \E r \in Req :
        /\ pc[r] = "done" /\ req[r].strategy = "auto"
        /\ env.brightdata_token /\ ~env.firecrawl_api_key
        /\ ~env.playwright_mcp_enabled
        /\ req[r].calls = <<"brightdata", "standalone">>

\* ------------------------------------------------------ rate limiter claims
\* The requests recorded within the window that ends now.
Recorded(window) == {j \in 1..Len(trace) : trace[j].at > now - window}

\* --------------------------------------------------------------------- C12
\* C12: with acquire() calls made one after another, at every moment at
\* most requestsPerSecond recorded requests have a timestamp within the
\* last 1000 ms.
C12_PerSecond ==
    /\ Cardinality(Recorded(WindowSecond)) <= limiter.requestsPerSecond
    /\ Len(Within(limiter.requests, now, WindowSecond)) <= limiter.requestsPerSecond

\* A limiter of two requests per second holds two requests in its last
\* second, the later of which had to wait for the per-second rule.
C12_Witness ==
    /\ limiter.requestsPerSecond = 2
    /\ Cardinality(Recorded(WindowSecond)) = 2
    /\ Len(trace) >= 3
    /\ trace[Len(trace)].wait > 0
    /\ trace[Len(trace)].at = trace[Len(trace) - 2].at + WindowSecond

\* --------------------------------------------------------------------- C13
\* C13: with acquire() calls made one after another, at every moment at
\* most requestsPerMinute recorded requests have a timestamp within the
\* last 60000 ms.
C13_PerMinute ==
    Cardinality(Recorded(WindowMinute)) <= limiter.requestsPerMinute

\* --------------------------------------------------------------------- C14
\* C14: whatever the options, two requests recorded one after the other by
\* acquire() calls made one after another are at least 500 ms apart.
C14_MinSpacing ==
    \A j \in 1..(Len(trace) - 1) : trace[j + 1].at - trace[j].at >= minDelay

\* --------------------------------------------------------------------- C15
\* C15: with acquire() calls pending at the same time on the limiter of
\* the server, no one-second window holds more than requestsPerSecond
\* recorded requests and no two recorded requests are closer than the
\* minimum spacing.
C15_ConcurrentSafe ==
    /\ Cardinality(Recorded(WindowSecond)) <= limiter.requestsPerSecond
    /\ \A j, k \in 1..Len(trace) :
          j # k => (trace[j].at - trace[k].at >= minDelay
                    \/ trace[k].at - trace[j].at >= minDelay)

\* ------------------------------------------------------------ retry claims
Settled == retry.pc \in {"returned", "threw"}

\* --------------------------------------------------------------------- C16
\* C16: withRetry invokes the operation at most maxRetries + 1 times; an
\* attempt that succeeds is the last one and its value is returned; when
\* every attempt has failed with a retryable error, maxRetries + 1
\* attempts have been made and the error of the last one is raised.
C16_BoundedAttempts ==
    LET n == Len(retry.outcomes)
    IN /\ retry.invoked = n
       /\ n <= retry.opts.maxRetries + 1
       /\ \A j \in 1..n :
             retry.outcomes[j].kind = "value"
             => /\ j = n
                /\ retry.pc = "returned"
                /\ retry.result = retry.outcomes[j]
       /\ (Settled /\ \A j \in 1..n : retry.outcomes[j] \in {TimedOut, RateLimited, NamedTimeout})
          => /\ retry.pc = "threw"
             /\ n = retry.opts.maxRetries + 1
             /\ retry.result = retry.outcomes[n]

\* A withRetry call with maxRetries = 2 whose three attempts failed with
\* three different retryable errors.
C16_Witness ==
    /\ retry.pc = "threw"
    /\ retry.fn = "fn"
    /\ retry.opts.maxRetries = 2
    /\ retry.outcomes = <<TimedOut, RateLimited, NamedTimeout>>
    /\ retry.result = NamedTimeout

\* --------------------------------------------------------------------- C17
\* C17: an attempt that fails with an error whose message and name hold
\* none of the retryable substrings (InvalidInput) is the last one: the
\* error is raised at once, with no onRetry call and no wait for it.
C17_NonRetryableRaised ==
    \A j \in 1..Len(retry.outcomes) :
        retry.outcomes[j] = InvalidInput
        => /\ j = Len(retry.outcomes)
           /\ retry.pc = "threw"
           /\ retry.result = InvalidInput
           /\ retry.invoked = j
           /\ Len(retry.onRetry) = j - 1
           /\ Len(retry.waits) = j - 1

\* InvalidInput was raised by the second attempt of a call that had
\* another retry left.
C17_Witness ==
    /\ retry.pc = "threw"
    /\ retry.opts.maxRetries = 2
    /\ retry.outcomes = <<TimedOut, InvalidInput>>
    /\ Len(retry.waits) = 1

\* --------------------------------------------------------------------- C18
\* C18: a fetchWithRetry call does not end with a response of status 429
\* or 500 and above before maxRetries + 1 fetches have been issued.
C18_StatusRetried ==
    \A j \in 1..Len(retry.fetched) :
        (/\ retry.fn = "fetch"
         /\ retry.fetched[j].kind = "response"
         /\ (retry.fetched[j].status >= 500 \/ retry.fetched[j].status = 429)
         /\ j <= retry.opts.maxRetries)
        => /\ retry.pc \in {"sleeping", "attempt"} \/ Len(retry.fetched) > j
           /\ retry.result.kind # "value" \/ retry.result.value # retry.fetched[j]

\* --------------------------------------------------------------------- C19
\* C19: when get(k) is the call that follows set(k, v) on a Cache object,
\* it returns v if less than the entry's TTL has passed since the set; if
\* more than the TTL has passed it returns absent, no cleanup() has run,
\* and the entry is no longer in the store.
C19_SetThenGet ==
    [][(/\ cacheCall.op = "set"
        /\ cacheCall'.n = cacheCall.n + 1
        /\ cacheCall'.op = "get"
        /\ cacheCall'.key = cacheCall.key)
       => LET ttl == IF cacheCall.ttlMs = 0
                     THEN cacheObject.options.defaultTTLMs
                     ELSE cacheCall.ttlMs
              elapsed == cacheCall'.at - cacheCall.at
          IN /\ elapsed < ttl
                => /\ cacheCall'.returned = cacheCall.value
                   /\ Has(cacheObject'.cache, cacheCall.key)
             /\ elapsed > ttl
                => /\ cacheCall'.returned = Absent
                   /\ ~cacheCall'.swept.ran
                   /\ Has(cacheObject.cache, cacheCall.key)
                   /\ ~Has(cacheObject'.cache, cacheCall.key)]_vars

\* The second call of a run was a get that found the entry of the first
\* call, a set, past its expiry: it returned absent and the entry is gone.
C19_Witness ==
    /\ cacheCall.n = 2
    /\ cacheCall.op = "get"
    /\ cacheCall.found # <<>>
    /\ cacheCall.found[1].expiresAt < cacheCall.at
    /\ cacheCall.returned = Absent
    /\ ~Has(cacheObject.cache, cacheCall.key)

\* --------------------------------------------------------------------- C20
\* The entries of a sequence that had not expired at time t.
Unexpired(entries, t) == SelectSeq(entries, LAMBDA e : ~(e.expiresAt < t))

SecondConstraintWait(l, t) ==
    IF Len(Within(l.requests, t, WindowSecond)) >= l.requestsPerSecond
       /\ Within(l.requests, t, WindowSecond) # <<>>
    THEN Max(0, Oldest(Within(l.requests, t, WindowSecond)) + WindowSecond - t)
    ELSE 0

MinuteConstraintWait(l, t) ==
    IF Len(Within(l.requests, t, WindowMinute)) >= l.requestsPerMinute
       /\ Within(l.requests, t, WindowMinute) # <<>>
    THEN Max(0, Oldest(Within(l.requests, t, WindowMinute)) + WindowMinute - t)
    ELSE 0

SpacingWait(l, t) == Max(0, minDelay - (t - l.lastRequestTime))

\* C28: the wait that getWaitTime() returned to an acquire() that is now
\* asleep is the largest of the three waits of the limiter at the time of
\* the call.
C28_MaxOfThreeWaits ==
    \A c \in Req :
        Sleeping(c)
        => acq[c].wait = Max(Max(SecondConstraintWait(limiter, acq[c].called),
                                 MinuteConstraintWait(limiter, acq[c].called)),
                             SpacingWait(limiter, acq[c].called))

\* --------------------------------------------------------------------- C29
\* The capped delay of attempt n: min(baseDelayMs * backoffMultiplier^n,
\* maxDelayMs).
Capped(n) ==
    Min(retry.opts.baseDelayMs * Pow(retry.opts.backoffMultiplier, n),
        retry.opts.maxDelayMs)

\* C29 as stated: the wait after failed attempt n lies between 0.75 and
\* 1.25 times the capped delay of attempt n.
C29_AsStated ==
    \A j \in 1..Len(retry.waits) :
        /\ 3 * Capped(j - 1) <= 4 * retry.waits[j]
        /\ 4 * retry.waits[j] <= 5 * Capped(j - 1)

\* C29: the wait after failed attempt n is a whole number of milliseconds
\* no further than half a millisecond from the interval between 0.75 and
\* 1.25 times the capped delay of attempt n, and inside that interval when
\* the capped delay is a multiple of 4.
C29_JitterRounded ==
    \A j \in 1..Len(retry.waits) :
        /\ 3 * Capped(j - 1) - 2 <= 4 * retry.waits[j]
        /\ 4 * retry.waits[j] <= 5 * Capped(j - 1) + 2
        /\ Capped(j - 1) % 4 = 0
           => /\ 3 * Capped(j - 1) <= 4 * retry.waits[j]
              /\ 4 * retry.waits[j] <= 5 * Capped(j - 1)

\* A call with the default base delay and a cap of 1500 ms has waited
\* twice, the second time on the capped delay and with another jitter.
C29_Witness ==
    /\ Len(retry.waits) = 2
    /\ retry.opts.baseDelayMs = 1000
    /\ retry.opts.maxDelayMs = 1500
    /\ retry.waits[1] = 1000
    /\ retry.waits[2] = 1125

C21_GetOrSet ==
    cacheCall.op = "getOrSet"
    => IF /\ cacheCall.found # <<>>
          /\ ~(cacheCall.found[1].expiresAt < cacheCall.begun)
       THEN /\ cacheCall.invoked = 0
            /\ cacheCall.returned = cacheCall.found[1].value
       ELSE /\ cacheCall.invoked = 1
            /\ cacheCall.returned # "threw"
               => /\ cacheCall.returned = cacheCall.value
                  /\ Has(cacheObject.cache, cacheCall.key)
                  /\ EntryOf(cacheObject.cache, cacheCall.key).value = cacheCall.returned

\* A getOrSet call found an expired entry under its key, invoked factory,
\* and the store now holds the value factory gave, another one than the
\* expired entry had.
C21_Witness ==
    /\ cacheCall.op = "getOrSet"
    /\ cacheCall.found # <<>>
    /\ cacheCall.found[1].expiresAt < cacheCall.begun
    /\ cacheCall.invoked = 1
    /\ cacheCall.returned # cacheCall.found[1].value
    /\ Has(cacheObject.cache, cacheCall.key)
    /\ EntryOf(cacheObject.cache, cacheCall.key).value = cacheCall.returned

\* --------------------------------------------------------------------- C22
\* The fields of an option object as a set: what is left of it when the
\* insertion order is forgotten.
FieldSet(o) == {o.fields[j] : j \in 1..Len(o.fields)}

\* C22: of two generateKey calls, those with the same url and option
\* objects of the same fields and values, whatever the insertion order,
\* gave the same key; those with different urls, or with option objects
\* of the same field names of which one has a different value, gave
\* different keys.
C22_KeyOfRequest ==
    \A j, k \in 1..Len(keyed) :
        (keyed[j].options.type = "object" /\ keyed[k].options.type = "object")
        => /\ (/\ keyed[j].url = keyed[k].url
               /\ FieldSet(keyed[j].options) = FieldSet(keyed[k].options))
              => keyed[j].key = keyed[k].key
           /\ (\/ keyed[j].url # keyed[k].url
               \/ /\ sort(ObjectKeys(keyed[j].options)) = sort(ObjectKeys(keyed[k].options))
                  /\ FieldSet(keyed[j].options) # FieldSet(keyed[k].options))
              => keyed[j].key # keyed[k].key

\* --------------------------------------------------------------------- C23
\* The browsers a StandaloneAdapter has launched and not closed.
OpenBrowsers == {b \in 1..Len(standalone.launched) : standalone.launched[b] = "open"}

\* C23: at every moment, also with calls running at the same time, at most
\* one browser launched by the adapter is open, every open browser is the
\* one the adapter's browser field refers to, and all calls that hold a
\* context hold it in the same browser.
C23_OneBrowser ==
    /\ Cardinality(OpenBrowsers) <= 1
    /\ \A b \in OpenBrowsers : standalone.browser = b
    /\ \A c, q \in Req :
          (standalone.call[c].pc = "context" /\ standalone.call[q].pc = "context")
          => standalone.call[c].browser = standalone.call[q].browser

\* ---------------------------------------------------- PlaywrightMCPAdapter
SearchTypes == {"posts", "pages", "groups", "events", "marketplace"}

\* An absent options.type.
NoType == "undefined"

Queries == {<<"q">>, <<"a", " ", "b">>}

\* encodeURIComponent: letters stay, a space becomes %20.
RECURSIVE encodeURIComponent(_)
encodeURIComponent(str) ==
    IF str = <<>> THEN <<>>
    ELSE (IF Head(str) = " " THEN <<"%", "2", "0">> ELSE <<Head(str)>>)
         \o encodeURIComponent(Tail(str))

Instruction(tool, param, value) ==
    [tool |-> tool, param |-> param, value |-> value]

generateInstructionsSnapshotFirst(url, action) ==
    <<Instruction("playwright_browser_snapshot", "none", <<>>),
      Instruction("playwright_browser_navigate", "url", url),
      Instruction("playwright_browser_wait_for", "time", <<"3">>),
      Instruction("playwright_browser_press_key", "key", <<"Escape">>),
      Instruction("playwright_browser_evaluate", "function", <<"window.scrollBy(0, 500)">>),
      Instruction("playwright_browser_wait_for", "time", <<"2">>)>>

\* PlaywrightMCPAdapter.generateInstructions: the same six instructions
\* for either action, pushed in this order.
generateInstructions(url, action) ==
    <<Instruction("playwright_browser_navigate", "url", url),
      Instruction("playwright_browser_wait_for", "time", <<"3">>),
      Instruction("playwright_browser_press_key", "key", <<"Escape">>),
      Instruction("playwright_browser_evaluate", "function", <<"window.scrollBy(0, 500)">>),
      Instruction("playwright_browser_wait_for", "time", <<"2">>),
      Instruction("playwright_browser_snapshot", "none", <<>>)>>

\* The envelope that carries the instructions in its metadata.
DelegationRequired(name, subject, instructions) ==
    [kind |-> "envelope", success |-> FALSE, data |-> "null",
     adapter_used |-> name, error |-> "PLAYWRIGHT_MCP_DELEGATION_REQUIRED",
     metadata |-> [subject |-> subject, instructions |-> instructions]]

\* PlaywrightMCPAdapter.scrapeUrl
PlaywrightMCP_scrapeUrl(url, config) ==
    IF ~config.playwright_mcp_enabled
    THEN createErrorResult("playwright-mcp", "Playwright MCP is not enabled")
    ELSE DelegationRequired("playwright-mcp", url, generateInstructions(url, "scrape"))

\* PlaywrightMCPAdapter.search
PlaywrightMCP_search(query, type, config) ==
    LET searchType == IF type = NoType THEN "posts" ELSE type
        searchUrl == <<"https://www.facebook.com/search/", searchType, "?q=">>
                     \o encodeURIComponent(query)
    IN IF ~config.playwright_mcp_enabled
       THEN createErrorResult("playwright-mcp", "Playwright MCP is not enabled")
       ELSE DelegationRequired("playwright-mcp", query,
                               generateInstructions(searchUrl, "search"))

\* A call of scrapeUrl: it runs to its return without suspending.
PlaywrightScrapeUrl(url) ==
    /\ delegated.n < MaxDelegations
    /\ delegated' = [n |-> delegated.n + 1, op |-> "scrapeUrl", input |-> url,
                     type |-> NoType, config |-> loadConfig,
                     result |-> PlaywrightMCP_scrapeUrl(url, loadConfig)]
    /\ UNCHANGED notDelegated

\* A call of search.
PlaywrightSearch(query, type) ==
    /\ delegated.n < MaxDelegations
    /\ delegated' = [n |-> delegated.n + 1, op |-> "search", input |-> query,
                     type |-> type, config |-> loadConfig,
                     result |-> PlaywrightMCP_search(query, type, loadConfig)]
    /\ UNCHANGED notDelegated

NextPlaywright ==
    \/ \E config \in Config : SetEnv(config)
    \/ \E url \in Urls : PlaywrightScrapeUrl(url)
    \/ \E query \in Queries, type \in SearchTypes \cup {NoType} :
          PlaywrightSearch(query, type)

SpecPlaywright == InitAlone /\ [][NextPlaywright]_vars

\* --------------------------------------------------------------------- C24
\* The tools of a list of instructions, in order.
ToolsOf(instructions) == [k \in 1..Len(instructions) |-> instructions[k].tool]

\* C24: every call of the playwright-mcp adapter's scrapeUrl or search
\* returns an envelope with success false and no data, issues no request,
\* takes no slot of the rate limiter and leaves every cache as it was; with
\* the flag enabled the error is PLAYWRIGHT_MCP_DELEGATION_REQUIRED and the
\* metadata carry the instructions navigate (to the url asked for, or to
\* the search url of the query), wait, press Escape, scroll, wait,
\* snapshot, in that order; with the flag disabled the error is the
\* configuration error.
C24_Delegation ==
    [][delegated'.n # delegated.n =>
        LET call == delegated'
            r == call.result
            target == IF call.op = "scrapeUrl" THEN call.input
                      ELSE <<"https://www.facebook.com/search/",
                             IF call.type = NoType THEN "posts" ELSE call.type,
                             "?q=">> \o encodeURIComponent(call.input)
        IN /\ IsEnvelope(r) /\ ~r.success /\ r.data = "null"
           /\ r.adapter_used = "playwright-mcp"
           /\ UNCHANGED <<limVars, cacheVars, objVars, req, issued>>
           /\ env.playwright_mcp_enabled =>
                 /\ r.error = "PLAYWRIGHT_MCP_DELEGATION_REQUIRED"
                 /\ ToolsOf(r.metadata.instructions) =
                       <<"playwright_browser_navigate",
                         "playwright_browser_wait_for",
                         "playwright_browser_press_key",
                         "playwright_browser_evaluate",
                         "playwright_browser_wait_for",
                         "playwright_browser_snapshot">>
                 /\ r.metadata.instructions[1].value = target
                 /\ r.metadata.instructions[3].value = <<"Escape">>
           /\ ~env.playwright_mcp_enabled =>
                 r = createErrorResult("playwright-mcp", "Playwright MCP is not enabled")
    ]_vars

\* A second call has been answered: a search, with the flag enabled, of
\* groups for a query that needs encoding.
C24_Witness ==
    /\ delegated.n = 2
    /\ delegated.op = "search"
    /\ delegated.input = <<"a", " ", "b">>
    /\ delegated.type = "groups"
    /\ delegated.config.playwright_mcp_enabled
    /\ delegated.result.metadata.instructions[1].value =
          <<"https://www.facebook.com/search/", "groups", "?q=",
            "a", "%", "2", "0", "b">>

\* ----------------------------------------------------------- FacebookParser
\* The selectors of the posts of either version, in the order tried.
SELECTORS ==
    [mbasic |-> [posts |-> <<"div[data-ft]", "article",
                             "div.story_body_container",
                             "div#m_story_permalink_view",
                             "div[data-sigil=story-div]",
                             "section > div > div > div">>],
     regular |-> [posts |-> <<"[data-pagelet*=FeedUnit]",
                              "[data-testid=Keycommand_wrapper]",
                              "div[role=article]",
                              "div[data-ad-preview]",
                              "div.userContentWrapper">>]]

\* A text: the characters of head followed by fill characters x. The heads
\* drawn do not end in x, so that equal strings are equal records.
Text(head, fill) == [head |-> head, fill |-> fill]

Empty == Text(<<>>, 0)

length(text) == Len(text.head) + text.fill

\* String.prototype.trim
RECURSIVE trimStart(_)
trimStart(str) ==
    IF str # <<>> /\ Head(str) = " " THEN trimStart(Tail(str)) ELSE str

RECURSIVE trimEnd(_)
trimEnd(str) ==
    IF str # <<>> /\ str[Len(str)] = " "
    THEN trimEnd(SubSeq(str, 1, Len(str) - 1)) ELSE str

trim(text) ==
    IF text.fill = 0 THEN Text(trimEnd(trimStart(text.head)), 0)
    ELSE IF text.head = <<>> THEN text
    ELSE Text(trimStart(text.head), text.fill)

\* String.prototype.substring(0, end)
substring(text, end) ==
    IF Len(text.head) >= end THEN Text(SubSeq(text.head, 1, end), 0)
    ELSE Text(text.head, Min(text.fill, end - Len(text.head)))

\* replace(/\s+/g, ' '): every run of spaces becomes one space.
RECURSIVE collapse(_)
collapse(str) ==
    IF Len(str) < 2 THEN str
    ELSE IF str[1] = " " /\ str[2] = " " THEN collapse(Tail(str))
    ELSE <<Head(str)>> \o collapse(Tail(str))

\* The cleaning of the text of an element in parsePostElement. The texts
\* drawn hold no counter of likes, comments or shares, which the second
\* replacement would cut out.
clean(text) == substring(Text(collapse(text.head), text.fill), 1000)

\* An element of the document: the post selectors it matches, whether it
\* matches 'p, div[dir="auto"], span[lang]', the story key of its data-ft
\* attribute (0: none), the author found in it, the longest text a content
\* selector finds in it, its own text, and whether extracting it raises.
Element(sel, generic, key, inner, text) ==
    [sel |-> sel, generic |-> generic, key |-> key, author |-> "Unknown",
     inner |-> inner, text |-> text, throws |-> FALSE]

\* String.prototype.includes on the markup: the marker is written in it, or
\* is part of an attribute of one of its elements.
MarkupIncludes(markup, marker) ==
    \/ marker \in markup.markers
    \/ /\ marker = "data-pagelet"
       /\ \E k \in 1..Len(markup.elements) :
             "[data-pagelet*=FeedUnit]" \in markup.elements[k].sel

\* FacebookParser.detectFacebookVersion
detectFacebookVersion(markup) ==
    IF MarkupIncludes(markup, "mbasic.facebook.com")
       \/ MarkupIncludes(markup, "m.facebook.com")
    THEN "mbasic"
    ELSE IF MarkupIncludes(markup, "data-pagelet")
            \/ MarkupIncludes(markup, "__comet_")
    THEN "regular"
    ELSE "mbasic"

\* The positions, in document order, of the elements that satisfy Test.
Positions(elements, Test(_)) ==
    SelectSeq([k \in 1..Len(elements) |-> k], LAMBDA k : Test(elements[k]))

\* FacebookParser.parsePostElement on the element at a position. An id made
\* of the clock and a random number is modelled as one no other element
\* gets.
parsePostElement(elements, at) ==
    LET element == elements[at]
        postId == IF element.key # 0
                  THEN [kind |-> "story", n |-> element.key]
                  ELSE [kind |-> "post", n |-> at]
        found == trim(element.inner)
        content == IF length(found) < 10 THEN clean(trim(element.text))
                   ELSE found
    IN [id |-> postId, author |-> element.author,
        content |-> substring(content, 2000)]

\* The test of parsePosts for a post that is already in the list.
exists(posts, post) ==
    \E k \in 1..Len(posts) :
        \/ posts[k].content = post.content
        \/ posts[k].id = post.id /\ post.id # [kind |-> "unknown", n |-> 0]

\* elements.each of parsePosts over the positions a selector matched.
RECURSIVE each(_, _, _)
each(elements, matched, posts) ==
    IF matched = <<>> THEN posts
    ELSE LET at == Head(matched)
             post == parsePostElement(elements, at)
         IN IF elements[at].throws THEN each(elements, Tail(matched), posts)
            ELSE IF length(post.content) > 10 /\ ~exists(posts, post)
            THEN each(elements, Tail(matched), Append(posts, post))
            ELSE each(elements, Tail(matched), posts)

\* The loop over the post selectors: the first selector that gives a post
\* ends it.
RECURSIVE StructuralPass(_, _, _)
StructuralPass(elements, selectors, k) ==
    IF k > Len(selectors) THEN <<>>
    ELSE LET matched == Positions(elements, LAMBDA e : selectors[k] \in e.sel)
             posts == each(elements, matched, <<>>)
         IN IF posts # <<>> THEN posts
            ELSE StructuralPass(elements, selectors, k + 1)

AnyLength(text) == TRUE

\* The window of lengths of extractFallbackPosts.
Substantial(text) == length(text) > 50 /\ length(text) < 5000

\* FacebookParser.extractFallbackPosts
extractFallbackPosts(elements) ==
    LET generic == Positions(elements, LAMBDA e : e.generic)
        kept == SelectSeq([index \in 1..Len(generic) |-> index],
                    LAMBDA index :
                        LET text == trim(elements[generic[index]].text)
                            lowerText == toLowerCase(text.head)
                        IN /\ Substantial(text)
                           /\ ~includes(lowerText, <<"l", "o", "g", " ", "i", "n">>)
                           /\ ~includes(lowerText, <<"s", "i", "g", "n", " ", "u", "p">>)
                           /\ ~includes(lowerText, <<"c", "r", "e", "a", "t", "e", " ",
                                                     "a", "c", "c", "o", "u", "n", "t">>))
    IN [j \in 1..Len(kept) |->
           [id |-> [kind |-> "fallback", n |-> kept[j] - 1],
            author |-> "Unknown",
            content |-> substring(trim(elements[generic[kept[j]]].text), 500)]]

sliceNothing(array, end) == array

\* Array.prototype.slice(0, end)
slice(array, end) == SubSeq(array, 1, Min(Len(array), end))

\* The ceiling of parsePosts.
PostLimit == 50

\* FacebookParser.parsePosts, with the posts of the structural pass and
\* the list before the cut kept beside the list returned.
parsePosts(markup) ==
    LET version == detectFacebookVersion(markup)
        structural == StructuralPass(markup.elements, SELECTORS[version].posts, 1)
        posts == IF Len(structural) = 0
                 THEN extractFallbackPosts(markup.elements)
                 ELSE structural
    IN [done |-> TRUE, markup |-> markup, version |-> version,
        structural |-> structural, fallback |-> Len(structural) = 0,
        extracted |-> posts, posts |-> slice(posts, PostLimit)]

\* ------------------------------------------------- the markups that are parsed
Story(head) == Text(head, 20)

ElementKinds ==
    {Element({"article"}, FALSE, 1, Story(<<"a">>), Empty),
     Element({"article"}, FALSE, 1, Story(<<"b">>), Empty),
     Element({"article"}, FALSE, 2, Story(<<" ", "a">>), Empty),
     [Element({"article"}, FALSE, 3, Story(<<"c">>), Empty) EXCEPT !.throws = TRUE],
     Element({"div[data-ft]", "div[role=article]"}, FALSE, 0,
             Text(<<"c">>, 5), Text(<<"c", " ", " ", "d">>, 7)),
     Element({"[data-pagelet*=FeedUnit]"}, TRUE, 0,
             Empty, Text(<<"e", " ", " ", "e">>, 30)),
     Element({}, TRUE, 0, Empty, Text(<<" ", "d">>, 60)),
     Element({}, TRUE, 0, Empty, Text(<<"P", "l", "e", "a", "s", "e", " ", "L", "o",
                                        "g", " ", "I", "n", " ">>, 60)),
     Element({}, TRUE, 0, Empty, Text(<<"d">>, 600)),
     Element({}, TRUE, 0, Empty, Text(<<"d">>, 700)),
     Element({}, TRUE, 0, Empty, Text(<<"f">>, 49)),
     Element({}, TRUE, 0, Empty, Text(<<"f">>, 4999))}

\* The texts the page itself holds that decide the version.
Markers == {{}, {"__comet_"}, {"m.facebook.com", "__comet_"}}

\* n containers of n stories, and n paragraphs of n texts.
Containers(n) ==
    [i \in 1..n |-> Element({"article"}, FALSE, i, Story(Decimal(i)), Empty)]

Paragraphs(n) ==
    [i \in 1..n |-> Element({}, TRUE, 0, Empty, Text(Decimal(i), 60))]

Markups ==
    [markers : Markers,
     elements : {<<>>} \cup {<<e>> : e \in ElementKinds}
                \cup {<<e, f>> : e, f \in ElementKinds}]
    \cup {[markers |-> {}, elements |-> Containers(n)] : n \in (PostLimit - 1)..MaxElements}
    \cup {[markers |-> {}, elements |-> Paragraphs(n)] : n \in (PostLimit - 1)..MaxElements}
    \cup {[markers |-> {},
           elements |-> <<Element({"article"}, FALSE, 0, Empty, Empty)>> \o Paragraphs(n)]
          : n \in (PostLimit - 1)..MaxElements}

\* A call of parsePosts.
ParsePosts(markup) ==
    /\ parsed' = parsePosts(markup)
    /\ UNCHANGED notParsed

NextParser == \E markup \in Markups : ParsePosts(markup)

SpecParser == InitAlone /\ [][NextParser]_vars

\* --------------------------------------------------------------------- C25
\* The phrases of a prompt to log in or to register.
Prompts ==
    {<<"l", "o", "g", " ", "i", "n">>,
     <<"s", "i", "g", "n", " ", "u", "p">>,
     <<"c", "r", "e", "a", "t", "e", " ", "a", "c", "c", "o", "u", "n", "t">>}

\* The positions of the generic text elements whose trimmed text is longer
\* than 50 and shorter than 5000 characters and holds none of the phrases,
\* in whatever letter case.
PlausibleTexts(elements) ==
    Positions(elements,
        LAMBDA e : /\ e.generic
                   /\ length(trim(e.text)) >= 51
                   /\ length(trim(e.text)) <= 4999
                   /\ \A phrase \in Prompts :
                         ~includes(toLowerCase(trim(e.text).head), phrase))

\* C25: the fallback pass of parsePosts runs exactly when the structural
\* pass gave no post; the posts it extracts are then one for every generic
\* text element whose trimmed text is longer than 50 and shorter than 5000
\* characters and holds none of 'log in', 'sign up', 'create account' in
\* any letter case, in document order, each with the author 'Unknown', and
\* parsePosts returns the first of them up to its ceiling; when the
\* structural pass gave a post, no post of the fallback is returned.
C25_Fallback ==
    parsed.done =>
        LET elements == parsed.markup.elements
            kept == PlausibleTexts(elements)
        IN /\ parsed.fallback <=> parsed.structural = <<>>
           /\ parsed.fallback =>
                 /\ Len(parsed.extracted) = Len(kept)
                 /\ \A j \in 1..Len(kept) :
                       /\ parsed.extracted[j].author = "Unknown"
                       /\ parsed.extracted[j].id.kind = "fallback"
                       /\ parsed.extracted[j].content =
                             substring(trim(elements[kept[j]].text), 500)
                 /\ Len(parsed.posts) = Min(Len(kept), PostLimit)
                 /\ \A j \in 1..Len(parsed.posts) :
                       parsed.posts[j] = parsed.extracted[j]
           /\ ~parsed.fallback =>
                 /\ parsed.posts # <<>>
                 /\ \A j \in 1..Len(parsed.posts) :
                       parsed.posts[j].id.kind # "fallback"

\* A markup of a prompt to log in and a paragraph was parsed: no selector
\* of a post matched, and the paragraph alone came back, as the second
\* generic element.
C25_Witness ==
    /\ parsed.done
    /\ parsed.fallback
    /\ Len(parsed.markup.elements) = 2
    /\ PlausibleTexts(parsed.markup.elements) = <<2>>
    /\ parsed.markup.elements[1].generic
    /\ length(trim(parsed.markup.elements[1].text)) > 50
    /\ Len(parsed.posts) = 1
    /\ parsed.posts[1].id = [kind |-> "fallback", n |-> 1]
    /\ parsed.posts[1].author = "Unknown"

\* --------------------------------------------------------------------- C26
\* C26: the list parsePosts returns holds no two posts with identical
\* content and no two posts with the same id taken from a story key.
C26_NoDuplicates ==
    parsed.done =>
        \A j, k \in 1..Len(parsed.posts) :
            j < k =>
                /\ parsed.posts[j].content # parsed.posts[k].content
                /\ parsed.posts[j].id.kind = "story"
                      => parsed.posts[j].id # parsed.posts[k].id

\* --------------------------------------------------------------------- C27
\* C27: parsePosts returns at most 50 posts, from either pass, and they
\* are the first 50 of the posts extracted, in the order of extraction,
\* which is the order of the elements in the document.
C27_Ceiling ==
    parsed.done =>
        LET elements == parsed.markup.elements
            generic == Positions(elements, LAMBDA e : e.generic)
            kept == PlausibleTexts(elements)
        IN /\ Len(parsed.posts) <= 50
           /\ Len(parsed.posts) = Min(Len(parsed.extracted), 50)
           /\ \A j \in 1..Len(parsed.posts) :
                 /\ parsed.posts[j] = parsed.extracted[j]
                 /\ parsed.fallback =>
                       generic[parsed.posts[j].id.n + 1] = kept[j]
                 /\ (~parsed.fallback /\ parsed.posts[j].id.kind = "post") =>
                       \A k \in 1..(j - 1) :
                           parsed.posts[k].id.kind = "post"
                               => parsed.posts[k].id.n < parsed.posts[j].id.n

\* A markup of 51 containers of 51 stories was parsed by the structural
\* pass, and the first 50 stories came back.
C27_Witness ==
    /\ parsed.done
    /\ ~parsed.fallback
    /\ Len(parsed.extracted) = PostLimit + 1
    /\ Len(parsed.posts) = PostLimit
    /\ \A j \in 1..PostLimit : parsed.posts[j].id = [kind |-> "story", n |-> j]

\* --------------------------------------------------------------------- C31
\* C31: no wait of a withRetry call between two attempts is longer than
\* the maxDelayMs of its options.
C31_WaitWithinMax ==
    \A j \in 1..Len(retry.waits) : retry.waits[j] <= retry.opts.maxDelayMs

\* ------------------------------------------- a cache with room above maxEntries
InitEager ==
    /\ env = NoCredentials
    /\ InitServer
    /\ now = WindowMinute
    /\ limiter = facebookRateLimiter
    /\ acq = [c \in Req |-> IdleAcquire]
    /\ trace = <<>>
    /\ retry = IdleRetry
    /\ cacheObject \in {Cache([defaultTTLMs |-> 3, maxEntries |-> m]) :
                            m \in (MaxEagerEntries - 1)..MaxEagerEntries}
    /\ cacheCall = IdleCall
    /\ pending = IdlePending
    /\ keyed = <<>>
    /\ standalone = StandaloneAdapter
    /\ parsed = NotParsed
    /\ delegated = NotDelegated
    /\ scrape = IdleScrape
    /\ contexts = NoContexts
    /\ built = NotBuilt

\* set(key, value) on the larger cache.
EagerSet(key) ==
    /\ cacheCall.n < MaxEagerCalls /\ NextKey(key)
    /\ cacheObject' = Cache_set(cacheObject, key, "v", 0, now).object
    /\ cacheCall' = [Called("set", key, "v", 0, Absent,
                            Cache_set(cacheObject, key, "v", 0, now).swept)
                        EXCEPT !.used = Max(cacheCall.used, key)]
    /\ UNCHANGED <<now, pending, notCache>>

EagerGet(key) ==
    /\ cacheCall.n < MaxEagerCalls /\ Has(cacheObject.cache, key)
    /\ cacheObject' = Cache_get(cacheObject, key, now).object
    /\ cacheCall' = Called("get", key, Absent, 0, Cache_get(cacheObject, key, now).returned, NoSweep)
    /\ UNCHANGED <<now, pending, notCache>>

\* cleanup(), called by the timer of startCleanup or by a caller.
EagerCleanup ==
    /\ cacheCall.n < MaxEagerCalls
    /\ cacheObject' = Cache_cleanup(cacheObject, now).object
    /\ cacheCall' = Called("cleanup", 0, Absent, 0, Absent,
                           [ran |-> TRUE, found |-> cacheObject.cache,
                            returned |-> Cache_cleanup(cacheObject, now).returned])
    /\ UNCHANGED <<now, pending, notCache>>

EagerDelete(key) ==
    /\ cacheCall.n < MaxEagerCalls /\ Has(cacheObject.cache, key)
    /\ cacheObject' = Cache_delete(cacheObject, key).object
    /\ cacheCall' = Called("delete", key, Absent, 0, Cache_delete(cacheObject, key).returned, NoSweep)
    /\ UNCHANGED <<now, pending, notCache>>

NextEager ==
    \/ \E key \in 1..MaxEagerKeys : EagerSet(key)
    \/ \E key \in 1..MaxEagerKeys : EagerGet(key)
    \/ EagerCleanup
    \/ \E key \in 1..MaxEagerKeys : EagerDelete(key)
    \/ \E d \in {4} : CacheTick(d)

SpecEager == InitEager /\ [][NextEager]_vars

\* --------------------------------------------------------------------- C32
\* C32: a cache never holds more entries than 1.2 times its maxEntries
\* when a call on it has returned; a set() that took the number of entries
\* above that ran cleanup() before it returned, and no other set() did; and
\* after a cleanup(), run by set() or on its own, the cache holds at most
\* maxEntries entries.
C32_EagerCleanup ==
    /\ Len(cacheObject.cache) * 10 <= cacheObject.options.maxEntries * 12
    /\ cacheCall.swept.ran => Len(cacheObject.cache) <= cacheObject.options.maxEntries
    /\ cacheCall.op = "set" =>
          LET before == Len(cacheObject.cache) + cacheCall.swept.returned
          IN cacheCall.swept.ran <=> before * 10 > cacheObject.options.maxEntries * 12

\* The cache of maxEntries 5 held 6 entries after a set(), one more than
\* maxEntries; the next set() made them 7 and ran the cleanup, which left
\* 5.
C32_Witness ==
    /\ cacheObject.options.maxEntries = 5
    /\ cacheCall.op = "set"
    /\ cacheCall.swept.ran
    /\ Len(cacheCall.swept.found) = 7
    /\ cacheCall.swept.returned = 2
    /\ Len(cacheObject.cache) = 5

\* ------------------------------------------- the steps of a fetching adapter
\* scrapeUrl / search of BrightDataAdapter, FirecrawlAdapter and
\* StandaloneAdapter, step by step, on the shared caches.
FetchingAdapters == {"brightdata", "firecrawl", "standalone"}

\* What the remote side gives after the retries: a page, an empty body, or
\* an error that the retries did not cure.
Fetches == {"page", "empty", "transport error"}

notScrape ==
    <<env, detVars, ret, detCalls, orchVars, pc, req, issued,
      limVars, retry, objVars, keyed, standalone, parsed, delegated, contexts, built>>

ScrapeKey(tool, url) == generateKey(url, ToolOptions(tool, "auto"))

\* The envelope the adapter builds from what it fetched, or the error
\* raised in its try block turned into an envelope by createErrorResult.
\* Only BrightDataAdapter.scrapeUrl and FirecrawlAdapter test for an empty
\* answer; the others parse it and succeed with no posts.
Fetched_result(name, tool, fetch) ==
    IF fetch = "transport error" THEN createErrorResult(name, "fetch failed")
    ELSE IF fetch = "empty" /\ (name = "firecrawl" \/ (name = "brightdata" /\ ~IsSearch(tool)))
    THEN createErrorResult(name, "empty response")
    ELSE IF fetch = "empty" THEN Envelope(TRUE, "no posts", name, "absent")
    ELSE SuccessResult(name)

\* An adapter that stores whatever it returns.
StoresEverything(name, tool, result) == UsesCache(name, tool)

\* The cache write at the end of the try block: reached by the adapters
\* that use a cache for the tool, when nothing was raised.
Stores(name, tool, result) == UsesCache(name, tool) /\ result.success

\* scrapeUrl / search is called and runs to its first await: the cache is
\* read, then the credential is tested, then the rate limiter is awaited.
ScrapeCall(name, tool, url) ==
    /\ scrape.pc \in {"idle", "returned"}
    /\ scrape.n < MaxScrapes
    /\ LET key == ScrapeKey(tool, url)
           looks == UsesCache(name, tool)
           cached == IF looks THEN CacheGet(CacheOf(tool), key) ELSE NoResult
           checks == name # "standalone"
           call == [IdleScrape EXCEPT !.n = scrape.n + 1, !.name = name,
                                      !.tool = tool, !.url = url,
                                      !.before = <<scrapeCache, searchCache>>,
                                      !.steps = IF looks THEN <<"cache lookup">> ELSE <<>>]
       IN scrape' =
             IF cached # NoResult
             THEN [call EXCEPT !.pc = "returned", !.result = cached]
             ELSE IF checks /\ ConfigError(name, loadConfig)
             THEN [call EXCEPT !.pc = "returned",
                               !.steps = Append(@, "credential check"),
                               !.result = createErrorResult(name, "not configured")]
             ELSE [call EXCEPT !.pc = "acquire",
                               !.steps = IF checks THEN Append(@, "credential check")
                                         ELSE @]
    /\ UNCHANGED <<scrapeCache, searchCache, notScrape>>

\* facebookRateLimiter.acquire() has let the call through.
ScrapeAcquired ==
    /\ scrape.pc = "acquire"
    /\ scrape' = [scrape EXCEPT !.pc = "fetch", !.steps = Append(@, "rate limiter")]
    /\ UNCHANGED <<scrapeCache, searchCache, notScrape>>

\* The retried fetch has ended; what follows it runs without suspension:
\* the answer is parsed, the envelope is built and stored, and the call
\* returns; or the error raised is caught and returned as an envelope.
ScrapeFetched(fetch) ==
    /\ scrape.pc = "fetch"
    /\ LET result == Fetched_result(scrape.name, scrape.tool, fetch)
           key == ScrapeKey(scrape.tool, scrape.url)
           stores == Stores(scrape.name, scrape.tool, result)
       IN /\ scrape' = [scrape EXCEPT
                           !.pc = "returned", !.result = result,
                           !.steps = @ \o <<"fetch">>
                                       \o (IF result.success THEN <<"parse">> ELSE <<>>)
                                       \o (IF stores THEN <<"cache store">> ELSE <<>>)]
          /\ scrapeCache' = IF stores /\ ~IsSearch(scrape.tool)
                            THEN CacheSet(scrapeCache, key, result) ELSE scrapeCache
          /\ searchCache' = IF stores /\ IsSearch(scrape.tool)
                            THEN CacheSet(searchCache, key, result) ELSE searchCache
    /\ UNCHANGED notScrape

NextScrape ==
    \/ \E name \in FetchingAdapters, tool \in {"fb_scrape_page", "fb_search"},
          url \in {"u", "v"} : ScrapeCall(name, tool, url)
    \/ ScrapeAcquired
    \/ \E fetch \in Fetches : ScrapeFetched(fetch)
    \/ \E config \in {NoCredentials,
                      [NoCredentials EXCEPT !.brightdata_token = TRUE,
                                            !.firecrawl_api_key = TRUE]} :
          SetEnv(config)

SpecScrape == InitAlone /\ [][NextScrape]_vars

\* --------------------------------------------------------------------- C33
\* The place of a step in the order the adapters are to keep.
StepRank(step) ==
    CASE step = "credential check" -> 1
      [] step = "rate limiter" -> 2
      [] step = "cache lookup" -> 3
      [] step = "fetch" -> 4
      [] step = "parse" -> 5
      [] step = "cache store" -> 6

\* C33: the steps of every scrapeUrl call of a fetching adapter are taken
\* in the order credential check, rate limiter, cache lookup, fetch,
\* parse, cache store, and a cache lookup is preceded by the acquisition of
\* the rate limiter, and in the adapters that need a credential by the
\* credential check.
C33_StepOrder ==
    (scrape.tool = "fb_scrape_page") =>
        /\ \A i, j \in 1..Len(scrape.steps) :
              i < j => StepRank(scrape.steps[i]) < StepRank(scrape.steps[j])
        /\ \A j \in 1..Len(scrape.steps) :
              scrape.steps[j] = "cache lookup" =>
                 /\ \E i \in 1..(j - 1) : scrape.steps[i] = "rate limiter"
                 /\ scrape.name # "standalone"
                       => \E i \in 1..(j - 1) : scrape.steps[i] = "credential check"

C35_AdapterUsed ==
    \A r \in Req :
        IsScrape(r) =>
            /\ \A j \in 1..Len(req[r].outs) :
                  IsEnvelope(req[r].outs[j])
                  => req[r].outs[j].adapter_used = req[r].calls[j]
            /\ (pc[r] = "done" /\ Succeeded(req[r].result))
                  => req[r].result.adapter_used = req[r].calls[Len(req[r].calls)]

\* ------------------------------------------ the orchestrator called directly
\* scrape() / search() of the exported orchestrator are called before any
\* initialize() has completed: each call awaits initialize() itself.
OrchestratorCall(r, tool, strategy) ==
    /\ pc[Main] = "start"
    /\ Free(r)
    /\ req' = [req EXCEPT ![r] = [IdleRequest EXCEPT !.tool = tool, !.strategy = strategy]]
    /\ pc' = [pc EXCEPT ![r] = "initialize"]
    /\ issued' = issued + 1
    /\ UNCHANGED <<env, detVars, ret, detCalls, orchVars, cacheVars>>
    /\ UNCHANGED utilVars

\* The environment holds no credential, or that of firecrawl.
InitDirect ==
    /\ env \in {NoCredentials, [NoCredentials EXCEPT !.firecrawl_api_key = TRUE]}
    /\ InitServer
    /\ InitUtilities

\* Page scrapes in auto mode whose adapters return envelopes.
NextDirect ==
    \/ \E r \in Req :
          issued < MaxRequests /\ OrchestratorCall(r, "fb_scrape_page", "auto")
    \/ \E r \in Req : InitializeBegin(r)
    \/ \E r \in Req : InitializeResume(r)
    \/ \E r \in Req : CallAdapter(r, FALSE)
    \/ \E r \in Req, ok \in BOOLEAN : AdapterComplete(r, ok)

SpecDirect == InitDirect /\ [][NextDirect]_vars

\* --------------------------------------------------------------------- C36
\* C36: also when requests call initialize() while an earlier call of it
\* is awaiting the detection, the priority order holds no backend twice,
\* one adapter was constructed for each backend in it, and no request
\* invokes a backend twice.
C36_InitializeOnce ==
    /\ \A i, j \in 1..Len(priorityOrder) :
          i # j => priorityOrder[i] # priorityOrder[j]
    /\ instances = Cardinality({name \in AdapterName : adapters[name] # 0})
    /\ \A r \in Req : \A i, j \in 1..Len(req[r].calls) :
          i # j => req[r].calls[i] # req[r].calls[j]

\* ------------------------------------- the contexts of a StandaloneAdapter
\* scrapeUrl / search of the StandaloneAdapter from withRetry on: every
\* attempt runs scrapeWithContext / searchWithContext.
notContexts ==
    <<serverVars, limVars, retry, objVars, keyed, parsed, delegated, scrape, built>>

\* maxRetries of the withRetry calls of the StandaloneAdapter.
StandaloneRetries == 2

\* An attempt enters createStealthContext and getBrowser: with no browser
\* in the field chromium.launch() is awaited, otherwise newContext() of
\* the browser of the field.
Enter(attempt) ==
    IF standalone.browser = 0
    THEN [IdleAttempt EXCEPT !.pc = "launching", !.attempt = attempt]
    ELSE [IdleAttempt EXCEPT !.pc = "newContext", !.attempt = attempt,
                             !.browser = standalone.browser]

CanEnter ==
    standalone.browser = 0
    => Len(standalone.launched)
          + Cardinality({q \in Req : contexts.call[q].pc = "launching"}) < MaxLaunches

\* The try block of scrapeWithContext without its finally: the context is
\* closed only after the page was read.
AfterTryWithoutFinally(ok) == IF ok THEN "finally" ELSE "failed"

\* Where scrapeWithContext / searchWithContext go when the try block is
\* left, by return or by an error: to the finally block.
AfterTry(ok) == "finally"

\* scrapeUrl / search is called, has passed the rate limiter and starts
\* the first attempt.
StandaloneCall(c) ==
    /\ contexts.call[c].pc \in {"idle", "returned"}
    /\ contexts.n < MaxContextCalls
    /\ CanEnter
    /\ contexts' = [contexts EXCEPT !.n = @ + 1, !.call[c] = Enter(1)]
    /\ UNCHANGED <<standalone, notContexts>>

\* chromium.launch() resolves: the browser is assigned to the field.
BrowserLaunched(c) ==
    /\ contexts.call[c].pc = "launching"
    /\ standalone' = [standalone EXCEPT !.launched = Append(@, "open"),
                                        !.browser = Len(standalone.launched) + 1]
    /\ contexts' = [contexts EXCEPT !.call[c].pc = "newContext",
                                    !.call[c].browser = Len(standalone.launched) + 1]
    /\ UNCHANGED notContexts

\* chromium.launch() rejects: the attempt fails without a context.
BrowserNotLaunched(c) ==
    /\ contexts.call[c].pc = "launching"
    /\ contexts' = [contexts EXCEPT !.call[c].pc = "failed"]
    /\ UNCHANGED <<standalone, notContexts>>

\* browser.newContext() resolves: a context is open.
NewContextResolves(c) ==
    /\ contexts.call[c].pc = "newContext"
    /\ standalone.launched[contexts.call[c].browser] = "open"
    /\ contexts' = [contexts EXCEPT
                       !.list = Append(@, [call |-> c, browser |-> contexts.call[c].browser,
                                           state |-> "open"]),
                       !.call[c].context = Len(contexts.list) + 1,
                       !.call[c].pc = "addInitScript"]
    /\ UNCHANGED <<standalone, notContexts>>

\* browser.newContext() rejects: the attempt fails without a context.
NewContextRejects(c) ==
    /\ contexts.call[c].pc = "newContext"
    /\ contexts' = [contexts EXCEPT !.call[c].pc = "failed"]
    /\ UNCHANGED <<standalone, notContexts>>

\* context.addInitScript() resolves, or rejects because the context was
\* closed with its browser; createStealthContext is outside the try block.
AddInitScriptEnds(c) ==
    /\ contexts.call[c].pc = "addInitScript"
    /\ contexts' = [contexts EXCEPT !.call[c].pc =
                       IF contexts.list[contexts.call[c].context].state = "open"
                       THEN "page" ELSE "failed"]
    /\ UNCHANGED <<standalone, notContexts>>

\* The try block ends: the page's content is returned, or a step on the
\* page raised; a page of a closed context raises.
TryEnds(c, ok) ==
    /\ contexts.call[c].pc = "page"
    /\ ok => contexts.list[contexts.call[c].context].state = "open"
    /\ contexts' = [contexts EXCEPT !.call[c].pc = AfterTry(ok), !.call[c].ok = ok]
    /\ UNCHANGED <<standalone, notContexts>>

\* The finally block: closeContext(context); then the content is returned
\* to scrapeUrl / search, which returns its envelope, or the error goes to
\* withRetry.
Finally(c) ==
    /\ contexts.call[c].pc = "finally"
    /\ contexts' = [contexts EXCEPT
                       !.list[contexts.call[c].context].state = "closed",
                       !.call[c].pc = IF contexts.call[c].ok THEN "returned" ELSE "failed"]
    /\ UNCHANGED <<standalone, notContexts>>

\* withRetry after a failed attempt: the next attempt when the error is
\* retryable and attempts are left.
RetryAttempt(c) ==
    /\ contexts.call[c].pc = "failed"
    /\ contexts.call[c].attempt <= StandaloneRetries
    /\ CanEnter
    /\ contexts' = [contexts EXCEPT !.call[c] = Enter(contexts.call[c].attempt + 1)]
    /\ UNCHANGED <<standalone, notContexts>>

\* withRetry raises the error, which scrapeUrl / search return as an
\* envelope: no attempt is left, or the error is not retryable.
GiveUp(c) ==
    /\ contexts.call[c].pc = "failed"
    /\ contexts' = [contexts EXCEPT !.call[c].pc = "returned", !.call[c].ok = FALSE]
    /\ UNCHANGED <<standalone, notContexts>>

\* cleanup() up to its await: browser.close() closes the browser of the
\* field and the contexts in it.
CleanupCloses ==
    /\ standalone.cleanup = "idle"
    /\ standalone.browser # 0
    /\ standalone' = [standalone EXCEPT !.launched[standalone.browser] = "closed",
                                        !.cleanup = "closing"]
    /\ contexts' = [contexts EXCEPT !.list =
                       [k \in 1..Len(contexts.list) |->
                           IF contexts.list[k].browser = standalone.browser
                           THEN [contexts.list[k] EXCEPT !.state = "closed"]
                           ELSE contexts.list[k]]]
    /\ UNCHANGED notContexts

NextContexts ==
    \/ \E c \in Req : StandaloneCall(c)
    \/ \E c \in Req : BrowserLaunched(c)
    \/ \E c \in Req : BrowserNotLaunched(c)
    \/ \E c \in Req : NewContextResolves(c)
    \/ \E c \in Req : NewContextRejects(c)
    \/ \E c \in Req : AddInitScriptEnds(c)
    \/ \E c \in Req, ok \in BOOLEAN : TryEnds(c, ok)
    \/ \E c \in Req : Finally(c)
    \/ \E c \in Req : RetryAttempt(c)
    \/ \E c \in Req : GiveUp(c)
    \/ CleanupCloses
    \/ StandaloneCleanupEnd

SpecContexts == InitAlone /\ [][NextContexts]_vars

IsDelegation(x) == IsEnvelope(x) /\ x.error = "PLAYWRIGHT_MCP_DELEGATION_REQUIRED"

\* C38: a request that went through the loop over the priority order, as
\* every request with strategy "auto" does, is never answered with the
\* delegation envelope of the playwright-mcp adapter, neither by the
\* orchestrator nor by the tool handler; a request answered with it named
\* the strategy "playwright-mcp" and took the requested-strategy branch.
C38_NoDelegationInAuto ==
    \A r \in Req :
        /\ req[r].strategy = "auto" => req[r].mode \in {"none", "loop"}
        /\ (IsDelegation(req[r].result) \/ IsDelegation(req[r].response))
           => req[r].strategy = "playwright-mcp" /\ req[r].mode = "requested"

\* A request in auto mode is finished; the playwright-mcp adapter was
\* invoked and gave its delegation envelope, and the request was answered
\* with another envelope, while a request naming the strategy
\* "playwright-mcp" was answered with the delegation envelope.
C38_Witness ==
    \E r, q \in Req :
        /\ pc[r] = "done"
        /\ req[r].strategy = "auto"
        /\ \E k \in 1..Len(req[r].outs) :
              req[r].calls[k] = "playwright-mcp" /\ IsDelegation(req[r].outs[k])
        /\ IsEnvelope(req[r].result)
        /\ ~IsDelegation(req[r].result)
        /\ pc[q] = "done"
        /\ req[q].strategy = "playwright-mcp"
        /\ IsDelegation(req[q].response)

\* --------------------------------------------------------------------- C39
\* The number of post selectors the loop of parsePosts evaluates on the
\* document, from selector k on: the loop is left only after a selector
\* that put a post in the list.
RECURSIVE Consulted(_, _, _)
Consulted(elements, selectors, k) ==
    IF k > Len(selectors) THEN Len(selectors)
    ELSE LET matched == Positions(elements, LAMBDA e : selectors[k] \in e.sel)
         IN IF each(elements, matched, <<>>) # <<>> THEN k
            ELSE Consulted(elements, selectors, k + 1)

\* The selectors, by their place in the list, that match an element.
Matching(elements, selectors) ==
    {k \in 1..Len(selectors) : \E j \in 1..Len(elements) : selectors[k] \in elements[j].sel}

notBuilt ==
    <<serverVars, limVars, retry, objVars, keyed, standalone, parsed, delegated,
      scrape, contexts>>

\* String.prototype.indexOf: the place before the first occurrence of part
\* in str, or -1.
indexOf(str, part) ==
    IF includes(str, part)
    THEN CHOOSE j \in 0..(Len(str) - Len(part)) :
            /\ SubSeq(str, j + 1, j + Len(part)) = part
            /\ \A i \in 0..(j - 1) : SubSeq(str, i + 1, i + Len(part)) # part
    ELSE -1

\* String.prototype.replace with a string pattern: the first occurrence of
\* the pattern is replaced. The replacements made hold no $.
replace(str, pattern, replacement) ==
    LET at == indexOf(str, pattern)
    IN IF at < 0 THEN str
       ELSE SubSeq(str, 1, at) \o replacement
            \o SubSeq(str, at + Len(pattern) + 1, Len(str))

Facebook == <<"f", "a", "c", "e", "b", "o", "o", "k", ".", "c", "o", "m">>
Mbasic == <<"m", "b", "a", "s", "i", "c", ".">>

\* StandaloneAdapter.buildFacebookUrl, with config.use_mbasic as read by
\* loadConfig().
buildFacebookUrl(use_mbasic, url) ==
    IF use_mbasic /\ includes(url, Facebook) /\ ~includes(url, Mbasic)
    THEN replace(replace(replace(url, <<"w", "w", "w", ".">> \o Facebook, Mbasic \o Facebook),
                         Facebook, Mbasic \o Facebook),
                 <<"m", ".">> \o Facebook, Mbasic \o Facebook)
    ELSE url

\* The target URLs: scheme, host and path.
Schemes == {<<"h", "t", "t", "p", "s", ":", "/", "/">>, <<"h", "t", "t", "p", ":", "/", "/">>}

FacebookHosts == {<<"w", "w", "w", ".">> \o Facebook, <<"m", ".">> \o Facebook, Facebook}

Hosts ==
    FacebookHosts
    \cup {Mbasic \o Facebook, <<"w", "e", "b", ".">> \o Facebook,
          <<"e", "x", "a", "m", "p", "l", "e", ".", "o", "r", "g">>}

Paths ==
    {<<>>, <<"/">>, <<"/", "z", "u", "c", "k">>, <<"/", "g", "r", "o", "u", "p", "s", "/", "1">>,
     <<"/", "p", "?", "i", "d", "=", "1">>}

\* scrapeUrl / search build the URL they navigate to.
BuildFacebookUrl(use_mbasic, scheme, host, path) ==
    /\ built' = [calls |-> 1, use_mbasic |-> use_mbasic,
                 scheme |-> scheme, host |-> host, path |-> path,
                 url |-> scheme \o host \o path,
                 result |-> buildFacebookUrl(use_mbasic, scheme \o host \o path)]
    /\ UNCHANGED notBuilt

\* The URL built is given to buildFacebookUrl once more, under the same
\* configuration.
BuildAgain ==
    /\ built.calls = 1
    /\ built' = [built EXCEPT !.calls = 2, !.url = built.result,
                              !.result = buildFacebookUrl(built.use_mbasic, built.result)]
    /\ UNCHANGED notBuilt

NextBuild ==
    \/ \E use_mbasic \in BOOLEAN, scheme \in Schemes, host \in Hosts, path \in Paths :
          BuildFacebookUrl(use_mbasic, scheme, host, path)
    \/ BuildAgain

SpecBuild == InitAlone /\ [][NextBuild]_vars

\* --------------------------------------------------------------------- C40
\* C40: with use_mbasic set, buildFacebookUrl gives for a URL on host
\* www.facebook.com, m.facebook.com or facebook.com the same URL on host
\* mbasic.facebook.com, and gives a URL on mbasic.facebook.com back as it
\* is, also when that URL is one it built before; with use_mbasic not set
\* it gives every URL back as it is.
C40_RewriteToMbasic ==
    built.calls > 0
    => /\ (built.calls = 1 /\ built.use_mbasic /\ built.host \in FacebookHosts)
          => built.result = built.scheme \o Mbasic \o Facebook \o built.path
       /\ (built.calls = 1 /\ built.use_mbasic /\ built.host = Mbasic \o Facebook)
          => built.result = built.url
       /\ (built.calls = 2 /\ built.use_mbasic /\ built.host \in FacebookHosts)
          => built.result = built.url
       /\ ~built.use_mbasic => built.result = built.url

====
